---- MODULE Spec2Model ----
(***************************************************************************)
(* The OSC packet codec of the MaxMSP-compatible MCP server                *)
(* (src/mcp-server-maxmsp-compatible.js): createOSCMessage,                *)
(* createOSCBundle and createOSCTimetag on the sending side, the socket    *)
(* 'message' handler with handleOSCBundle, handleOSCMessage,               *)
(* parseOSCAddress, parseOSCArgs and parseOSCTimetag on the receiving      *)
(* side.  With it: the OSC message log (atomicWriteOSCMessage and its      *)
(* fileWriteQueue, cleanup, addOSCMessage of shared-storage.js), the tool  *)
(* batch_send_osc, the pattern store (loadPatterns, save_osc_pattern,      *)
(* delete_osc_pattern), the parameter streams of the WebSocket controller  *)
(* and the decoder of the dashboard (parseOSCMessage).  Each part has its  *)
(* own next-state relation and specification over the one initial state.   *)
(*                                                                         *)
(* Representation.  A Buffer is a sequence of bytes (0..255); the code's   *)
(* 0-based offsets are kept, so buffer[offset] is At(buffer, offset).      *)
(* A JavaScript string is the sequence of its code points.  A JavaScript   *)
(* value is a record [k, v] whose v is always a sequence of integers:      *)
(*   k = "num"   v = <<m, e>>   the number m * 2^e, m odd (or <<0, 0>>)    *)
(*   k = "str"   v = the code points                                       *)
(*   k = "bool"  v = <<1>> (true) or <<0>> (false)                         *)
(*   k = "null"  v = <<>>                                                  *)
(*   k = "undef" v = <<>>       undefined                                  *)
(*   k = "nan"   v = <<>>       NaN                                        *)
(*   k = "inf"   v = <<s>>      +Infinity (s = 0) or -Infinity (s = 1)     *)
(* Numbers are dyadic rationals so that Number.isInteger, parseInt,        *)
(* writeInt32BE and the IEEE-754 single encoding of writeFloatBE are       *)
(* computed, bit for bit, as Node computes them.                           *)
(***************************************************************************)
EXTENDS Integers, Sequences, FiniteSets, TLC

VARIABLES phase, sent, wire, stack, log, escaped, file

\* The overlapping log writes of the server: the calls of
\* atomicWriteOSCMessage, fileWriteQueue's entry for the log file, the file
\* '<file>.tmp', whether the content at the log file's own path is
\* incomplete, and cleanup().
VARIABLES calls, fileWriteQueue, tempFile, torn, shutdown

\* A call of the tool batch_send_osc (handleBatchSendOSC).
VARIABLES batch

\* The patterns file (its patterns and its metadata.totalPatterns), the
\* last call of a pattern tool, and the clock of new Date().
VARIABLES patternsFile, patternOp, now

\* The parameter streams of the WebSocket controller: the stream objects
\* that were created, the map parameterStreams, the clock, the messages the
\* streams sent, and the parameters stopParameterStream has run for.
VARIABLES streams, parameterStreams, time, streamSent, stoppedIds

codecVars == <<phase, sent, wire, stack, log, escaped>>

streamVars == <<streams, parameterStreams, time, streamSent, stoppedIds>>

patternVars == <<patternsFile, patternOp, now>>

writeVars == <<calls, fileWriteQueue, tempFile, torn, shutdown>>

\* What the packet codec leaves alone.
aside == <<writeVars, batch, patternVars, streamVars>>

vars == <<phase, sent, wire, stack, log, escaped, file, aside>>

-----------------------------------------------------------------------------
(* Buffers and strings *)

Min(a, b) == IF a < b THEN a ELSE b

Abs(n) == IF n < 0 THEN 0 - n ELSE n

\* buffer[offset] with the code's 0-based offset; -1 stands for undefined
\* (an index past the end), which equals no byte.
At(buffer, offset) ==
  IF offset >= 0 /\ offset < Len(buffer) THEN buffer[offset + 1] ELSE 0 - 1

\* buffer.subarray(start, end): both ends are clamped to the buffer.
subarray(buffer, start, end) ==
  SubSeq(buffer, Min(start, Len(buffer)) + 1, Min(end, Len(buffer)))

\* Buffer.alloc(n): n zero bytes.
Zeros(n) == [i \in 1..n |-> 0]

\* LET x == v IN F(x), with v evaluated once.
Bind(v, F(_)) == CHOOSE y \in {F(x) : x \in {v}} : TRUE

RECURSIVE ConcatRange(_, _, _)
\* list[lo] \o ... \o list[hi]
ConcatRange(list, lo, hi) ==
  IF lo > hi THEN <<>>
  ELSE IF lo = hi THEN list[lo]
  ELSE ConcatRange(list, lo, (lo + hi) \div 2)
         \o ConcatRange(list, ((lo + hi) \div 2) + 1, hi)

\* Buffer.concat(list)
Concat(list) == ConcatRange(list, 1, Len(list))

\* The UTF-8 bytes of one code point (Buffer.from(string) encodes UTF-8).
Utf8Char(c) ==
  IF c < 128 THEN <<c>>
  ELSE IF c < 2048 THEN <<192 + (c \div 64), 128 + (c % 64)>>
  ELSE <<224 + (c \div 4096), 128 + ((c \div 64) % 64), 128 + (c % 64)>>

\* Buffer.from(string)
BufferFrom(str) == Concat([i \in 1..Len(str) |-> Utf8Char(str[i])])

RECURSIVE Utf8DecodeFrom(_, _)
Utf8DecodeFrom(bytes, i) ==
  IF i > Len(bytes) THEN <<>>
  ELSE IF bytes[i] < 128 THEN <<bytes[i]>> \o Utf8DecodeFrom(bytes, i + 1)
  ELSE IF /\ bytes[i] >= 194 /\ bytes[i] < 224 /\ Len(bytes) >= i + 1
          /\ bytes[i + 1] >= 128 /\ bytes[i + 1] < 192
       THEN <<(bytes[i] - 192) * 64 + (bytes[i + 1] - 128)>>
              \o Utf8DecodeFrom(bytes, i + 2)
  ELSE <<65533>> \o Utf8DecodeFrom(bytes, i + 1)

\* buffer.toString('utf8'): one- and two-byte sequences are decoded, every
\* other byte yields U+FFFD (65533).  The buffers of this model hold no lead
\* byte of a three- or four-byte sequence.
Utf8Decode(bytes) == Utf8DecodeFrom(bytes, 1)

\* The character codes the code names in literals.
Code(c) ==
  CASE c = "," -> 44 [] c = "/" -> 47 [] c = "#" -> 35
    [] c = "i" -> 105 [] c = "f" -> 102 [] c = "s" -> 115
    [] c = "T" -> 84 [] c = "F" -> 70 [] c = "N" -> 78 [] c = "I" -> 73
    [] c = "-" -> 45 [] c = "." -> 46 [] c = "0" -> 48
    [] c = "b" -> 98 [] c = "t" -> 116 [] c = "x" -> 120

StrTrue == <<116, 114, 117, 101>>
StrFalse == <<102, 97, 108, 115, 101>>
StrNull == <<110, 117, 108, 108>>
StrUndefined == <<117, 110, 100, 101, 102, 105, 110, 101, 100>>
StrNaN == <<78, 97, 78>>
StrUnknown == <<47, 117, 110, 107, 110, 111, 119, 110>>
StrBundle == <<35, 98, 117, 110, 100, 108, 101>>
StrBundleError == StrBundle \o <<95, 101, 114, 114, 111, 114>>

-----------------------------------------------------------------------------
(* JavaScript values *)

RECURSIVE Normalize(_, _)
\* The canonical pair <<m, e>> of the number m * 2^e.
Normalize(m, e) ==
  IF m = 0 THEN <<0, 0>>
  ELSE IF m % 2 = 0 THEN Normalize(m \div 2, e + 1)
  ELSE <<m, e>>

Num(m, e) == [k |-> "num", v |-> Normalize(m, e)]
IntV(n) == Num(n, 0)
Str(s) == [k |-> "str", v |-> s]
Bool(b) == [k |-> "bool", v |-> IF b THEN <<1>> ELSE <<0>>]
Null == [k |-> "null", v |-> <<>>]
Undefined == [k |-> "undef", v |-> <<>>]
NaN == [k |-> "nan", v |-> <<>>]
Infinity(s) == [k |-> "inf", v |-> <<s>>]

\* typeof value === 'number'
IsNumber(value) == value.k \in {"num", "nan", "inf"}

\* Number.isInteger(value)
IsInteger(value) == value.k = "num" /\ value.v[2] >= 0

\* The integer a "num" with e >= 0 denotes (within the checker's integers).
IntOf(value) == value.v[1] * (2 ^ value.v[2])

RECURSIVE Log2(_)
\* floor(log2(a)) for a >= 1
Log2(a) == IF a < 2 THEN 0 ELSE 1 + Log2(a \div 2)

RECURSIVE Digits(_)
\* The decimal digits of n >= 0, as character codes.
Digits(n) ==
  IF n < 10 THEN <<Code("0") + n>>
  ELSE Digits(n \div 10) \o <<Code("0") + (n % 10)>>

RECURSIVE FracDigits(_, _)
\* The j decimal digits of r / 2^j (0 <= r < 2^j): the exact expansion.
FracDigits(r, j) ==
  IF j = 0 THEN <<>>
  ELSE <<Code("0") + ((r * 10) \div (2 ^ j))>>
         \o FracDigits(((r * 10) % (2 ^ j)) \div 2, j - 1)

\* String(value): the numbers of this model have a short exact decimal
\* expansion, which is what Number.prototype.toString prints.
String(value) ==
  CASE value.k = "str" -> value.v
    [] value.k = "bool" -> IF value.v = <<1>> THEN StrTrue ELSE StrFalse
    [] value.k = "null" -> StrNull
    [] value.k = "undef" -> StrUndefined
    [] value.k = "nan" -> StrNaN
    [] value.k = "inf" -> StrNaN
    [] value.k = "num" ->
         LET m == value.v[1]
             e == value.v[2]
             sign == IF m < 0 THEN <<Code("-")>> ELSE <<>>
         IN IF e >= 0 THEN sign \o Digits(Abs(m) * (2 ^ e))
            ELSE sign \o Digits(Abs(m) \div (2 ^ (0 - e))) \o <<Code(".")>>
                   \o FracDigits(Abs(m) % (2 ^ (0 - e)), 0 - e)

\* parseInt(value): the value is converted to a string and its leading
\* integer is read.  No string of this model starts with a digit or a sign.
parseInt(value) ==
  IF value.k = "num"
  THEN LET m == value.v[1]
           e == value.v[2]
       IN IF e >= 0 THEN value
          ELSE IF m < 0 THEN Num(0 - (Abs(m) \div (2 ^ (0 - e))), 0)
          ELSE Num(m \div (2 ^ (0 - e)), 0)
  ELSE NaN

\* parseFloat(value)
parseFloat(value) == IF value.k = "num" THEN value ELSE NaN

\* Whether the integer "num" lies in -2^31 .. 2^31 - 1.
FitsInt32(value) ==
  LET m == value.v[1]
      e == value.v[2]
  IN \/ e = 0
     \/ (e >= 1 /\ e <= 30 /\ Abs(m) < 2 ^ (31 - e))
     \/ (m = 0 - 1 /\ e = 31)

\* Mutant of writeInt32BE: the four bytes in little-endian order.
Int32BytesLittleEndian(n) ==
  <<n % 256, (n \div 256) % 256, (n \div 65536) % 256, (n \div 16777216) % 256>>

\* The four big-endian two's-complement bytes of n.
Int32Bytes(n) ==
  <<(n \div 16777216) % 256, (n \div 65536) % 256, (n \div 256) % 256, n % 256>>

\* buffer.writeInt32BE(value, 0) on Buffer.alloc(4): NaN passes the range
\* check and is stored as 0; a number outside the int32 range throws
\* ERR_OUT_OF_RANGE.
writeInt32BE(value) ==
  IF value.k = "nan" THEN [threw |-> FALSE, buf |-> Zeros(4)]
  ELSE IF ~FitsInt32(value) THEN [threw |-> TRUE, buf |-> <<>>]
  ELSE [threw |-> FALSE,
        buf |-> IF value.v = <<0 - 1, 31>> THEN <<128, 0, 0, 0>>
                ELSE Int32Bytes(IntOf(value))]

\* The bytes of an IEEE-754 single with the given sign, biased exponent and
\* 23-bit mantissa.
Float32Bytes(sign, biased, mant) ==
  <<sign * 128 + (biased \div 2), (biased % 2) * 128 + (mant \div 65536),
    (mant \div 256) % 256, mant % 256>>

\* buffer.writeFloatBE(value, 0) on Buffer.alloc(4): round to nearest even
\* to 24 significant bits.  Every number of this model lies in the normal
\* range of a single (biased exponent 1..254).
writeFloatBE(value) ==
  IF value.k = "nan" THEN <<127, 192, 0, 0>>
  ELSE IF value.k = "inf" THEN Float32Bytes(value.v[1], 255, 0)
  ELSE IF value.v[1] = 0 THEN Zeros(4)
  ELSE LET m == value.v[1]
           e == value.v[2]
           sign == IF m < 0 THEN 1 ELSE 0
           a == Abs(m)
           kk == Log2(a)
           sh == kk - 23
           q == IF sh <= 0 THEN a * (2 ^ (0 - sh)) ELSE a \div (2 ^ sh)
           r == IF sh <= 0 THEN 0 ELSE a % (2 ^ sh)
           half == IF sh <= 0 THEN 1 ELSE 2 ^ (sh - 1)
           up == r > half \/ (r = half /\ q % 2 = 1)
           q2 == IF up THEN q + 1 ELSE q
           carry == q2 = 16777216
           mant == IF carry THEN 0 ELSE q2 - 8388608
           biased == kk + e + 127 + (IF carry THEN 1 ELSE 0)
       IN IF biased >= 255 THEN Float32Bytes(sign, 255, 0)
          ELSE IF biased <= 0 THEN Float32Bytes(sign, 0, 0)
          ELSE Float32Bytes(sign, biased, mant)

\* buffer.readInt32BE(offset); the caller has checked offset + 4 <= length.
readInt32BE(buffer, offset) ==
  LET b0 == At(buffer, offset)
      rest == At(buffer, offset + 1) * 65536 + At(buffer, offset + 2) * 256
                + At(buffer, offset + 3)
  IN IF b0 < 128 THEN IntV(b0 * 16777216 + rest)
     ELSE IF b0 = 128 /\ rest = 0 THEN Num(0 - 1, 31)
     ELSE IntV((b0 - 256) * 16777216 + rest)

\* buffer.readFloatBE(offset)
readFloatBE(buffer, offset) ==
  LET b0 == At(buffer, offset)
      b1 == At(buffer, offset + 1)
      sign == b0 \div 128
      biased == (b0 % 128) * 2 + (b1 \div 128)
      mant == (b1 % 128) * 65536 + At(buffer, offset + 2) * 256
                + At(buffer, offset + 3)
      sg(x) == IF sign = 1 THEN 0 - x ELSE x
  IN IF biased = 255 THEN (IF mant = 0 THEN Infinity(sign) ELSE NaN)
     ELSE IF biased = 0 THEN Num(sg(mant), 0 - 149)
     ELSE Num(sg(8388608 + mant), biased - 150)

-----------------------------------------------------------------------------
(* Encoding: createOSCMessage, padTo4Bytes, createOSCTimetag,
   createOSCBundle *)

\* padTo4Bytes(buffer): mutant with the padding computed as length % 4.
padTo4BytesNoComplement(buffer) == buffer \o Zeros(Len(buffer) % 4)

padTo4Bytes(buffer) ==
  LET padding == (4 - (Len(buffer) % 4)) % 4
  IN buffer \o Zeros(padding)

\* The tag createOSCMessage infers for a value when no typeTags are given
\* (the values.map callback of the type tag string).
InferTag(value) ==
  IF IsNumber(value) THEN (IF IsInteger(value) THEN Code("i") ELSE Code("f"))
  ELSE IF value.k = "bool"
       THEN (IF value.v = <<1>> THEN Code("T") ELSE Code("F"))
  ELSE Code("s")

\* typeTags[index] || (typeof value === 'number' ? (isInteger ? 'i' : 'f') : 's')
ExpectedType(value, index, typeTags) ==
  IF index < Len(typeTags) THEN typeTags[index + 1]
  ELSE IF IsNumber(value) THEN (IF IsInteger(value) THEN Code("i") ELSE Code("f"))
  ELSE Code("s")

\* One element of argBuffers: [threw, buf].
ArgBuffer(value, index, typeTags) ==
  LET expectedType == ExpectedType(value, index, typeTags)
  IN CASE expectedType = Code("i") -> writeInt32BE(parseInt(value))
       [] expectedType = Code("f") ->
            [threw |-> FALSE, buf |-> writeFloatBE(parseFloat(value))]
       [] expectedType = Code("s") ->
            [threw |-> FALSE, buf |-> padTo4Bytes(BufferFrom(String(value) \o <<0>>))]
       [] expectedType \in {Code("T"), Code("F"), Code("N"), Code("I")} ->
            [threw |-> FALSE, buf |-> <<>>]
       [] OTHER ->
            [threw |-> FALSE, buf |-> padTo4Bytes(BufferFrom(String(value) \o <<0>>))]

\* createOSCMessage(address, values, typeTags): address is a value (a string,
\* or undefined when the caller's object has no address), values a sequence
\* of values, typeTags a string ('' when omitted).  The result is
\* [threw, buf]: threw when writeInt32BE raises a RangeError.
createOSCMessage(address, values, typeTags) ==
  LET addressBuffer == BufferFrom(String(address) \o <<0>>)
      addressPadded == padTo4Bytes(addressBuffer)
      typeTagString ==
        <<Code(",")>> \o (IF typeTags # <<>> THEN typeTags
                          ELSE [i \in 1..Len(values) |-> InferTag(values[i])])
      typeTagBuffer == padTo4Bytes(BufferFrom(typeTagString \o <<0>>))
      argBuffers == [i \in 1..Len(values) |-> ArgBuffer(values[i], i - 1, typeTags)]
  IN [threw |-> \E i \in 1..Len(values) : argBuffers[i].threw,
      buf |-> addressPadded \o typeTagBuffer
                \o Concat([i \in 1..Len(values) |-> argBuffers[i].buf])]

\* 2208988800 = NtpHi * 65536 + NtpLo, the seconds from 1900 to 1970.  32-bit
\* unsigned quantities are kept as two 16-bit halves <<hi, lo>>.
NtpHi == 33706
NtpLo == 32384

\* Mutant of writeUInt32BE: the four bytes in little-endian order.
UInt32BytesLittleEndian(hl) ==
  <<hl[2] % 256, hl[2] \div 256, hl[1] % 256, hl[1] \div 256>>

\* The four big-endian bytes of the unsigned 32-bit <<hi, lo>>.
UInt32Bytes(hl) == <<hl[1] \div 256, hl[1] % 256, hl[2] \div 256, hl[2] % 256>>

\* createOSCTimetag(timestamp) for a timestamp 0 <= timestamp < 2^31 (ms):
\* ntpFraction = Math.round(((timestamp % 1000) / 1000) * 0xFFFFFFFF),
\* computed exactly by long division of 2 * ms * (2^32 - 1) + 1000 by 2000.
createOSCTimetag(timestamp) ==
  IF timestamp = 0 THEN UInt32Bytes(<<0, 0>>) \o UInt32Bytes(<<0, 1>>)
  ELSE LET unixSeconds == timestamp \div 1000
           ms == timestamp % 1000
           lo == NtpLo + (unixSeconds % 65536)
           ntpSeconds == <<NtpHi + (unixSeconds \div 65536) + (lo \div 65536),
                           lo % 65536>>
           borrow == 1000 - 2 * ms < 0
           x2 == IF borrow THEN 2 * ms - 1 ELSE 2 * ms
           x1 == IF borrow THEN 65535 ELSE 0
           x0 == IF borrow THEN 65536 + 1000 - 2 * ms ELSE 1000 - 2 * ms
           t1 == (x2 % 2000) * 65536 + x1
           t0 == (t1 % 2000) * 65536 + x0
           ntpFraction == <<t1 \div 2000, t0 \div 2000>>
       IN UInt32Bytes(ntpSeconds) \o UInt32Bytes(ntpFraction)

\* One iteration of createOSCBundle's loop: size prefix + message.  A
\* property the caller's object lacks reads as undefined: message.address is
\* then undefined and message.args || [] is [].
BundleElementBuffer(message) ==
  LET sizeBuffer(length) == UInt32Bytes(<<length \div 65536, length % 65536>>)
      SizeAndMessage(oscMessage) ==
        [threw |-> oscMessage.threw,
         buf |-> sizeBuffer(Len(oscMessage.buf)) \o oscMessage.buf]
  IN Bind(createOSCMessage(IF "address" \in DOMAIN message
                           THEN Str(message.address) ELSE Undefined,
                           IF "args" \in DOMAIN message THEN message.args ELSE <<>>,
                           <<>>),
          SizeAndMessage)

\* createOSCBundle(messages, timetag): [threw, buf].
createOSCBundle(messages, timetag) ==
  LET bundleHeader == BufferFrom(StrBundle \o <<0>>)
      timetagBuffer == createOSCTimetag(timetag)
      messageBuffers == [i \in 1..Len(messages) |-> BundleElementBuffer(messages[i])]
  IN [threw |-> \E i \in 1..Len(messages) : messageBuffers[i].threw,
      buf |-> bundleHeader \o timetagBuffer
                \o Concat([i \in 1..Len(messages) |-> messageBuffers[i].buf])]

-----------------------------------------------------------------------------
(* Decoding: parseOSCAddress, isOSCBundle, parseOSCTimetag, parseOSCArgs *)

\* Where the loop
\*   while (offset < buffer.length && buffer[offset] !== 0) offset++
\* started at offset = from ends: at the first 0 byte at or after from, at
\* buffer.length if there is none, at from itself if from is past the end.
IndexOfZero(buffer, from) ==
  IF from >= Len(buffer) THEN from
  ELSE IF \E j \in from..(Len(buffer) - 1) : buffer[j + 1] = 0
       THEN CHOOSE j \in from..(Len(buffer) - 1) :
              /\ buffer[j + 1] = 0
              /\ \A h \in from..(j - 1) : buffer[h + 1] # 0
  ELSE Len(buffer)

\* parseOSCAddress(buffer): buffer.indexOf(0) is -1 when there is no 0 byte.
parseOSCAddress(buffer) ==
  LET z == IndexOfZero(buffer, 0)
      nullIndex == IF z >= Len(buffer) THEN 0 - 1 ELSE z
  IN IF nullIndex > 0 THEN Utf8Decode(subarray(buffer, 0, nullIndex))
     ELSE StrUnknown

\* Mutant of isOSCBundle: only the 7 characters of '#bundle' are compared.
isOSCBundleSevenBytes(buffer) ==
  Len(buffer) >= 7 /\ subarray(buffer, 0, 7) = BufferFrom(StrBundle)

\* isOSCBundle(buffer)
isOSCBundle(buffer) ==
  LET bundleHeader == BufferFrom(StrBundle \o <<0>>)
  IN Len(buffer) >= 8 /\ subarray(buffer, 0, 8) = bundleHeader

\* parseOSCTimetag(buffer) on 8 bytes: the Date unixSeconds * 1000 +
\* milliseconds, kept as <<hi, lo, ms>> with unixSeconds = hi * 65536 + lo
\* (hi may be negative), 0 <= lo < 65536 and 0 <= ms < 1000.
\* milliseconds = Math.round((fraction / 0xFFFFFFFF) * 1000) is computed
\* exactly: floor((2000 * fraction + (2^32 - 1)) / (2^32 - 1)) \div 2.
parseOSCTimetag(buffer) ==
  LET sh == At(buffer, 0) * 256 + At(buffer, 1)
      sl == At(buffer, 2) * 256 + At(buffer, 3)
      fh == At(buffer, 4) * 256 + At(buffer, 5)
      fl == At(buffer, 6) * 256 + At(buffer, 7)
      t0 == 2000 * fl + 65535
      a0 == t0 % 65536
      t1 == 2000 * fh + 65535 + (t0 \div 65536)
      a1 == t1 % 65536
      a2 == t1 \div 65536
      j == a2 + (IF a1 = 65535 /\ a0 + a2 >= 65535 THEN 1 ELSE 0)
      milliseconds == j \div 2
      lo0 == (sl - NtpLo) % 65536
      hi0 == sh - NtpHi - (IF sl < NtpLo THEN 1 ELSE 0)
      lo1 == lo0 + (milliseconds \div 1000)
  IN <<hi0 + (lo1 \div 65536), lo1 % 65536, milliseconds % 1000>>

\* while (offset % 4 !== 0 && offset < buffer.length) offset++
SkipPadding(buffer, offset) ==
  IF offset >= Len(buffer) THEN offset
  ELSE Min(offset + ((4 - (offset % 4)) % 4), Len(buffer))

\* The string read by the 's' case: characters up to the next 0 byte or the
\* end of the buffer, one per byte (String.fromCharCode).
ReadString(buffer, offset) == subarray(buffer, offset, IndexOfZero(buffer, offset))

\* Mutant of the default case: the cursor stays where it is.
UnknownTagAdvanceNone(offset) == offset

\* default: offset += 4 (line 351).
UnknownTagAdvance(offset) == offset + 4

RECURSIVE ParseArgsLoop(_, _, _, _, _)
\* The for loop of parseOSCArgs from index i on.
ParseArgsLoop(buffer, typeTag, i, offset, args) ==
  IF i >= Len(typeTag) THEN args
  ELSE IF offset + 4 > Len(buffer) THEN args
  ELSE LET type == typeTag[i + 1]
       IN CASE type = Code("i") ->
                 ParseArgsLoop(buffer, typeTag, i + 1, offset + 4,
                               Append(args, readInt32BE(buffer, offset)))
            [] type = Code("f") ->
                 ParseArgsLoop(buffer, typeTag, i + 1, offset + 4,
                               Append(args, readFloatBE(buffer, offset)))
            [] type = Code("s") ->
                 ParseArgsLoop(buffer, typeTag, i + 1,
                               SkipPadding(buffer, IndexOfZero(buffer, offset) + 1),
                               Append(args, Str(ReadString(buffer, offset))))
            [] type = Code("T") ->
                 ParseArgsLoop(buffer, typeTag, i + 1, offset, Append(args, Bool(TRUE)))
            [] type = Code("F") ->
                 ParseArgsLoop(buffer, typeTag, i + 1, offset, Append(args, Bool(FALSE)))
            [] type = Code("N") ->
                 ParseArgsLoop(buffer, typeTag, i + 1, offset, Append(args, Null))
            [] OTHER ->
                 ParseArgsLoop(buffer, typeTag, i + 1, UnknownTagAdvance(offset), args)

\* The try block of parseOSCArgs.  No statement of it can throw: every read
\* is guarded by offset + 4 <= buffer.length and an index past the end reads
\* undefined; the catch (return []) is therefore never entered.
parseOSCArgs(buffer) ==
  LET afterAddress == SkipPadding(buffer, IndexOfZero(buffer, 0) + 1)
      hasTags == At(buffer, afterAddress) = Code(",")
      tagEnd == IndexOfZero(buffer, afterAddress + 1)
      typeTag == IF hasTags THEN subarray(buffer, afterAddress + 1, tagEnd) ELSE <<>>
      offset == IF hasTags THEN SkipPadding(buffer, tagEnd + 1) ELSE afterAddress
  IN IF afterAddress >= Len(buffer) THEN <<>>
     ELSE ParseArgsLoop(buffer, typeTag, 0, offset, <<>>)

-----------------------------------------------------------------------------
(* The decoder of the dashboard: parseOSCMessage of dashboard-server.js
   (lines 1030-1108), the same text as parseOSCMessage of stop.js (lines
   1762-1840) *)

RECURSIVE DashboardArgsLoop(_, _, _, _, _)
\* The for loop over the type tags from index i on: an 'i' or 'f' without
\* four bytes left is passed over, an unknown tag is ignored, and the other
\* tags are decoded wherever the cursor stands.
DashboardArgsLoop(buffer, typeTag, i, offset, args) ==
  IF i >= Len(typeTag) THEN args
  ELSE LET type == typeTag[i + 1]
       IN CASE type = Code("i") ->
                 IF offset + 4 <= Len(buffer)
                 THEN DashboardArgsLoop(buffer, typeTag, i + 1, offset + 4,
                                        Append(args, readInt32BE(buffer, offset)))
                 ELSE DashboardArgsLoop(buffer, typeTag, i + 1, offset, args)
            [] type = Code("f") ->
                 IF offset + 4 <= Len(buffer)
                 THEN DashboardArgsLoop(buffer, typeTag, i + 1, offset + 4,
                                        Append(args, readFloatBE(buffer, offset)))
                 ELSE DashboardArgsLoop(buffer, typeTag, i + 1, offset, args)
            [] type = Code("s") ->
                 DashboardArgsLoop(buffer, typeTag, i + 1,
                                   SkipPadding(buffer, IndexOfZero(buffer, offset) + 1),
                                   Append(args, Str(ReadString(buffer, offset))))
            [] type = Code("T") ->
                 DashboardArgsLoop(buffer, typeTag, i + 1, offset, Append(args, Bool(TRUE)))
            [] type = Code("F") ->
                 DashboardArgsLoop(buffer, typeTag, i + 1, offset, Append(args, Bool(FALSE)))
            [] type = Code("N") ->
                 DashboardArgsLoop(buffer, typeTag, i + 1, offset, Append(args, Null))
            [] OTHER ->
                 DashboardArgsLoop(buffer, typeTag, i + 1, offset, args)

\* parseOSCMessage(buffer): the address is the bytes before the first 0
\* byte (or all of them), one character per byte; the type tags follow a
\* ',' at the next 4-byte boundary; the byte after them (or, without a
\* ',', the byte at the boundary) is skipped before the padding.
parseOSCMessage(buffer) ==
  LET address == subarray(buffer, 0, IndexOfZero(buffer, 0))
      afterAddress == SkipPadding(buffer, IndexOfZero(buffer, 0) + 1)
      hasTags == At(buffer, afterAddress) = 44
      tagEnd == IF hasTags THEN IndexOfZero(buffer, afterAddress + 1) ELSE afterAddress
      typeTag == IF hasTags THEN subarray(buffer, afterAddress + 1, tagEnd) ELSE <<>>
      offset == SkipPadding(buffer, tagEnd + 1)
  IN IF afterAddress >= Len(buffer) THEN [address |-> address, args |-> <<>>]
     ELSE [address |-> address,
           args |-> DashboardArgsLoop(buffer, typeTag, 0, offset, <<>>)]

-----------------------------------------------------------------------------
(* The receive path: the socket 'message' handler, handleOSCMessage and
   handleOSCBundle.  handleOSCBundle is asynchronous and recursive; its
   activations are the frames of stack, innermost last:
     buffer, offset, elementCount, elements, timetag   the locals
     pending   <<>>, or the one element record the frame pushes when the
               nested handleOSCBundle it awaits returns (line 204) *)

\* while (... elementCount < 100): the safety limit of line 177.
MaxBundleElements == 100

\* buffer.readUInt32BE(offset) as the two 16-bit halves <<hi, lo>>.
readUInt32BE(buffer, offset) ==
  <<At(buffer, offset) * 256 + At(buffer, offset + 1),
    At(buffer, offset + 2) * 256 + At(buffer, offset + 3)>>

\* The record handleOSCMessage hands to atomicWriteOSCMessage.
handleOSCMessage(buffer) ==
  [type |-> "message", address |-> parseOSCAddress(buffer),
   args |-> parseOSCArgs(buffer)]

\* The errorInfo record of handleOSCBundle's catch.
ErrorInfo == [type |-> "bundle_error", address |-> StrBundleError, args |-> <<>>]

\* The bundleInfo record written after the loop.
BundleInfo(f) ==
  [type |-> "bundle", address |-> StrBundle,
   args |-> [bundleTimetag |-> f.timetag, elementCount |-> Len(f.elements),
             elements |-> f.elements]]

\* The throw of line 164: the buffer is too short to hold the timetag.
TimetagMissing(buffer) == 8 + 8 > Len(buffer)

\* Mutant of the catch: the error is thrown on instead of being logged.
handleOSCBundleRethrow(buffer) == [escaped |-> TRUE, logged |-> <<>>]

\* The catch of handleOSCBundle (lines 230-244), entered for the throw of
\* line 164: the error is logged and the call returns normally.
handleOSCBundleCatch(buffer) == [escaped |-> FALSE, logged |-> <<ErrorInfo>>]

\* The frame of a handleOSCBundle activation when it reaches the loop.
NewFrame(buffer) ==
  [buffer |-> buffer, offset |-> 16,
   timetag |-> parseOSCTimetag(subarray(buffer, 8, 16)),
   elements |-> <<>>, elementCount |-> 0, pending |-> <<>>]

\* Mutant of the loop condition: no element-count limit.
LoopGuardNoLimit(f) == f.offset < Len(f.buffer)

\* The loop condition of line 177.
LoopGuard(f) == f.offset < Len(f.buffer) /\ f.elementCount < MaxBundleElements

\* The declared size as an integer; a size of 2^30 or more (hi >= 16384)
\* exceeds every buffer and is never converted.
SizeOf(hl) == hl[1] * 65536 + hl[2]

\* Mutant of the size check: a size that overruns the buffer is let through
\* (sizes of 2^30 or more aside).
ElementSizeInvalidNoOverrun(buffer, offset, hl) == hl = <<0, 0>> \/ hl[1] >= 16384

\* elementSize === 0 || offset + elementSize > buffer.length (line 186);
\* offset is the offset after the size prefix.
ElementSizeInvalid(buffer, offset, hl) ==
  \/ hl = <<0, 0>>
  \/ hl[1] >= 16384
  \/ offset + SizeOf(hl) > Len(buffer)

\* Mutant of the element extraction: the whole buffer is handed on.
ElementDataWholeBuffer(buffer, offset, size) == buffer

\* buffer.subarray(offset, offset + elementSize) (line 192).
ElementData(buffer, offset, size) == subarray(buffer, offset, offset + size)

\* Whether the loop body of the frame runs to the element processing (no
\* exit by the loop condition and none of the two breaks).
HasElement(f) ==
  /\ LoopGuard(f)
  /\ f.offset + 4 <= Len(f.buffer)
  /\ ~ElementSizeInvalid(f.buffer, f.offset + 4, readUInt32BE(f.buffer, f.offset))

\* The frame after elements.push(...) and elementCount++.
Pushed(f, element) ==
  [f EXCEPT !.elements = Append(@, element), !.elementCount = @ + 1,
            !.pending = <<>>]

Top == stack[Len(stack)]
Below == SubSeq(stack, 1, Len(stack) - 1)

-----------------------------------------------------------------------------
(* The send paths' validation of addresses *)

\* Mutant of the validation: only a missing or empty address is refused.
AddressInvalidMissingOnly(address) == address.k # "str" \/ address.v = <<>>

\* The address checks of handleSendOSC (line 765), handleBatchSendOSC
\* (line 881) and handleSendOSCBundle (line 1123), each followed by a throw:
\* !address.startsWith('/') raises a TypeError for an address that is
\* undefined, and !msg.address is true for undefined and for ''.
AddressInvalid(address) ==
  \/ address.k # "str"
  \/ address.v = <<>>
  \/ address.v[1] # Code("/")

\* message.address of a caller's object, undefined when it has none.
AddressOf(message) ==
  IF "address" \in DOMAIN message THEN Str(message.address) ELSE Undefined

-----------------------------------------------------------------------------
(* The inputs: what callers encode and what arrives on the socket *)

MaxArgs == 2
MaxMsgs == 2
MaxRawArgs == 2
MaxRawElems == 2
MaxDepth == 3
ExtraElements == 1

SeqsUpTo(S, n) == UNION {[1..m -> S] : m \in 0..n}

\* "/a" and "/ab": with the terminator 3 and 4 bytes, so one address needs
\* padding and one does not.
Addresses == {<<47, 97>>, <<47, 97, 98>>}

\* -2, 0.5, "hello", "e-acute" (two UTF-8 bytes), true, false, null.
ArgValues ==
  {IntV(0 - 2), Num(1, 0 - 1), Str(<<104, 101, 108, 108, 111>>), Str(<<233>>),
   Bool(TRUE), Bool(FALSE), Null}

\* The tag a caller declares for a value: as inferred, and 'N' for null.
DeclaredTag(value) == IF value.k = "null" THEN Code("N") ELSE InferTag(value)
DeclaredTags(values) == [i \in 1..Len(values) |-> DeclaredTag(values[i])]

\* Type-tag strings that need not fit the values: "i", "fT", "b".
OtherTypeTags == {<<105>>, <<102, 84>>, <<98>>}

TypeTagChoices(values) == {<<>>, DeclaredTags(values)} \cup OtherTypeTags

\* Addresses the send paths refuse: '', 'a', and none at all (undefined).
RefusedAddresses == {Str(<<>>), Str(<<97>>), Undefined}

\* Messages with such addresses.
RefusedMsgs ==
  {[address |-> <<>>, args |-> <<>>], [address |-> <<97>>, args |-> <<>>],
   [args |-> <<>>]}

\* The messages put into bundles.
BundleMsgs ==
  {[address |-> <<47, 97>>, args |-> <<>>],
   [address |-> <<47, 97, 98>>, args |-> <<IntV(0 - 2)>>],
   [address |-> <<47, 97>>, args |-> <<Str(<<104, 101, 108, 108, 111>>)>>],
   [address |-> <<47, 97, 98>>, args |-> <<Bool(TRUE), IntV(0 - 2)>>]}

\* 0 is "immediate"; 1500 is 1.5 s after the Unix epoch.
Timetags == {0, 1500}

\* Raw chunks for packets no encoder of this repository produced.
RawAddrChunks == {<<47, 97, 0, 0>>, <<0, 0, 0, 0>>, <<47, 97, 98, 99>>}
RawTagChunks ==
  {<<44, 105, 0, 0>>, <<44, 115, 0, 0>>, <<44, 105, 84, 0>>, <<44, 120, 105, 0>>,
   <<44, 115, 105, 102>>, <<97, 98, 99, 100>>}
RawArgChunks ==
  {<<0, 0, 0, 1>>, <<255, 255, 255, 255>>, <<97, 98, 0, 0>>, <<97, 98, 99, 100>>}

BundleHeader == BufferFrom(StrBundle \o <<0>>)
ImmediateBytes == <<0, 0, 0, 0, 0, 0, 0, 1>>

\* A size prefix followed by the bytes it announces.
Sized(bytes) == UInt32Bytes(<<Len(bytes) \div 65536, Len(bytes) % 65536>>) \o bytes

\* Bundle elements, well formed and not: a message without arguments, a
\* message with one int, an empty nested bundle, a nested bundle too short
\* for its timetag, a zero size, a size of 2^32 - 1, a size of 64 with
\* 4 bytes behind it.
RawElemChunks ==
  {Sized(<<47, 97, 0, 0>>),
   Sized(<<47, 97, 0, 0, 44, 105, 0, 0, 0, 0, 0, 7>>),
   Sized(BundleHeader \o ImmediateBytes),
   Sized(BundleHeader),
   <<0, 0, 0, 0>>,
   <<255, 255, 255, 255>>,
   <<0, 0, 0, 64, 47, 97, 0, 0>>}

RECURSIVE Chain(_)
\* d bundles nested in one another around one message.
Chain(d) ==
  IF d = 0 THEN <<47, 97, 0, 0>>
  ELSE BundleHeader \o ImmediateBytes \o Sized(Chain(d - 1))

\* The bad size prefixes of a malformed element: zero, and more than the
\* bytes that follow.
BadPrefixes == {<<0, 0, 0, 0>>, <<0, 0, 0, 64>>}
Tails == {<<>>, <<47, 97, 0, 0>>, Sized(<<47, 97, 0, 0>>)}

\* The first 8 bytes of packets that are bundles or nearly so: '#bundle\0',
\* '#bundle ' (a space for the NUL), '#Bundle\0' and '/bundle\0'.
LookalikeHeads ==
  {<<35, 98, 117, 110, 100, 108, 101, 0>>, <<35, 98, 117, 110, 100, 108, 101, 32>>,
   <<35, 66, 117, 110, 100, 108, 101, 0>>, <<47, 98, 117, 110, 100, 108, 101, 0>>}

\* Timestamps (Unix ms) around the rounding of the fraction, a change of
\* second, a carry in the 16-bit halves of the seconds, and 2^31 - 1.
TimetagProbes ==
  {0, 1, 499, 500, 501, 999, 1000, 1500, 65535999, 65536000, 2147483647}

\* Timetag bytes a peer may send: the immediate timetag, NTP time 0 (what
\* createOSCTimetag writes for the timestamp -2208988800000), a fraction of
\* 2, the Unix epoch, and all ones.
RawTimetags ==
  {<<0, 0, 0, 0, 0, 0, 0, 1>>, <<0, 0, 0, 0, 0, 0, 0, 0>>, <<0, 0, 0, 0, 0, 0, 0, 2>>,
   <<131, 170, 126, 128, 0, 0, 0, 0>>, <<255, 255, 255, 255, 255, 255, 255, 255>>}

\* Integers over the int32 range: both ends, their neighbours, and the
\* values around the byte boundaries.
Int32Probes ==
  {(0 - 2147483647) - 1, 0 - 2147483647, 0 - 16777217, 0 - 65536, 0 - 257,
   0 - 256, 0 - 129, 0 - 128, 0 - 1, 0, 1, 127, 128, 255, 256, 65535, 65536,
   16777215, 16777216, 2147483646, 2147483647}

\* The JavaScript number n.
NumberOf(n) == IF n = (0 - 2147483647) - 1 THEN Num(0 - 1, 31) ELSE IntV(n)

-----------------------------------------------------------------------------
(* The OSC message log file *)

\* CONFIG.MAX_OSC_MESSAGES (line 46): parseInt of the environment's
\* MAX_OSC_MESSAGES, 1000 when the variable is not set.  Here the server is
\* configured with MAX_OSC_MESSAGES=4.
MAX_OSC_MESSAGES == 4

\* The cap written into addOSCMessage of shared-storage.js.
StorageCap == 1000

\* The number of writes of one logging run.
MaxWrites == 6

\* Array.prototype.slice(-n): the last n elements; slice(-0) is slice(0),
\* the whole array.
SliceLast(messages, n) ==
  IF n = 0 \/ n >= Len(messages) THEN messages
  ELSE SubSeq(messages, Len(messages) - n + 1, Len(messages))

\* The log file after _performAtomicWrite(fileName, newMessage) completed
\* on a file holding messages (lines 380-410).
performAtomicWrite(messages, newMessage) ==
  LET pushed == Append(messages, newMessage)
  IN IF Len(pushed) > MAX_OSC_MESSAGES
     THEN SliceLast(pushed, MAX_OSC_MESSAGES)
     ELSE pushed

\* atomicWriteOSCMessage(message) with no other write of the file in
\* progress (lines 362-378).
atomicWriteOSCMessage(messages, message) == performAtomicWrite(messages, message)

\* The writes of the records of one step, one after the other.
RECURSIVE WriteFrom(_, _, _)
WriteFrom(messages, records, i) ==
  IF i > Len(records) THEN messages
  ELSE WriteFrom(atomicWriteOSCMessage(messages, records[i]), records, i + 1)

atomicWriteOSCMessages(messages, records) == WriteFrom(messages, records, 1)

\* The log file after addOSCMessage of shared-storage.js stored message
\* (lines 84-104): loadMessages, push, splice(0, length - 1000),
\* saveMessages.
addOSCMessage(messages, message) ==
  LET pushed == Append(messages, message)
  IN IF Len(pushed) > StorageCap
     THEN SubSeq(pushed, (Len(pushed) - StorageCap) + 1, Len(pushed))
     ELSE pushed

\* The id-th record written in a logging run.
LogEntry(id, direction) == [type |-> "entry", id |-> id, direction |-> direction]

\* The number of the next record of a logging run.
NextId == IF file = <<>> THEN 1 ELSE file[Len(file)].id + 1

-----------------------------------------------------------------------------
(* Overlapping log writes: atomicWriteOSCMessage, fileWriteQueue, cleanup *)

\* The number of calls of atomicWriteOSCMessage of one run.
MaxCalls == 3

CallIds == 1..MaxCalls

\* A call of atomicWriteOSCMessage: where it stands, the promise it awaits
\* at line 367 (named by the call whose writePromise it is), the array
\* _performAtomicWrite built, what its open descriptor of '<file>.tmp'
\* refers to, and whether its _performAtomicWrite caught an error.
NoCall == [pc |-> "idle", awaiting |-> 0, messages |-> <<>>, fd |-> "none",
           failed |-> FALSE]

WritesInit ==
  /\ calls = [c \in CallIds |-> NoCall]
  /\ fileWriteQueue = 0
  /\ tempFile = [present |-> FALSE, content |-> <<>>, complete |-> FALSE]
  /\ torn = FALSE
  /\ shutdown = [state |-> "running", awaited |-> 0, started |-> {}]

\* _performAtomicWrite of call c is in progress: it was called and has not
\* returned.
InProgress(c) == calls[c].pc \in {"mkdir", "read", "open", "write", "rename"}

\* The calls suspended at line 367 on the writePromise of call c, which
\* resume in the order they called.
Waiters(cs, c) == {d \in CallIds : cs[d].pc = "waiting" /\ cs[d].awaiting = c}

Latest(S) == CHOOSE d \in S : \A e \in S : e <= d

\* The writePromise of call c is fulfilled.  Its reactions run in the order
\* they were registered: call c itself (line 373, then the finally's
\* delete of line 376), then each call that awaited it at line 367, which
\* goes on to lines 370-371 without looking at the map again: it starts its
\* own _performAtomicWrite (up to the await of mkdir) and sets the entry.
SettledCalls(cs, c) ==
  [d \in CallIds |->
     IF d = c THEN [cs[d] EXCEPT !.pc = "finished"]
     ELSE IF d \in Waiters(cs, c) THEN [cs[d] EXCEPT !.pc = "mkdir", !.awaiting = 0]
     ELSE cs[d]]

SettledQueue(cs, c) == IF Waiters(cs, c) = {} THEN 0 ELSE Latest(Waiters(cs, c))

\* cleanup() awaits Promise.all of the promises that were in the map when
\* it was called (line 1662).
SettledShutdown(c) ==
  IF shutdown.state = "waiting" /\ shutdown.awaited = c
  THEN [shutdown EXCEPT !.state = "resolved"]
  ELSE shutdown

-----------------------------------------------------------------------------
(* batch_send_osc: handleBatchSendOSC *)

\* The most messages of one batch (line 872).
MaxBatchMessages == 100

\* The most messages of the batches that are enumerated.
MaxBatch == 2

NoBatch == [pc |-> "idle"]

\* The characters of /^[ifsbtTFNI]*$/ (line 886).
TypeTagCharacters ==
  {Code("i"), Code("f"), Code("s"), Code("b"), Code("t"), Code("T"),
   Code("F"), Code("N"), Code("I")}

\* The tags lines 896-906 generate when none are given: i or f for a
\* number, s for a string, T or F for a boolean, s for anything else.
AutoTag(value) ==
  IF value.k = "num" THEN (IF IsInteger(value) THEN Code("i") ELSE Code("f"))
  ELSE IF value.k = "str" THEN Code("s")
  ELSE IF value.k = "bool" THEN (IF value.v = <<1>> THEN Code("T") ELSE Code("F"))
  ELSE Code("s")

finalTypeTags(msg) ==
  IF msg.type_tags = <<>> /\ Len(msg.values) > 0
  THEN [i \in 1..Len(msg.values) |-> AutoTag(msg.values[i])]
  ELSE msg.type_tags

\* The checks of one message (lines 881-912): one of them throws.
MessageThrowsAddressOnly(msg) == AddressInvalid(msg.address)

MessageThrows(msg) ==
  \/ AddressInvalid(msg.address)
  \/ /\ msg.type_tags # <<>>
     /\ \E i \in 1..Len(msg.type_tags) : msg.type_tags[i] \notin TypeTagCharacters
  \/ Len(finalTypeTags(msg)) # Len(msg.values)

\* The checks of the batch (lines 868-873) and of its messages in turn.
BatchThrows(messages) ==
  \/ Len(messages) = 0
  \/ Len(messages) > MaxBatchMessages
  \/ \E i \in 1..Len(messages) : MessageThrows(messages[i])

\* this.sendOSCMessageToTarget(oscMessage, target, port, transport_protocol)
\* (lines 974 and 1015): the class defines no method of this name, the call
\* throws a TypeError and nothing is sent.
sendOSCMessageToTarget(oscMessage) == [threw |-> TRUE, datagrams |-> <<>>]

\* One message of the atomic or the queued mode (lines 971-1000 and
\* 1013-1037): createOSCMessage, then the send; an exception of either is
\* caught and counted.
SendOne(msg) ==
  LET oscMessage == createOSCMessage(msg.address, msg.values, finalTypeTags(msg))
  IN IF oscMessage.threw THEN [threw |-> TRUE, datagrams |-> <<>>]
     ELSE sendOSCMessageToTarget(oscMessage.buf)

\* The counters after the message was handled.
CountedSkippingFailures(b, r) ==
  [b EXCEPT !.datagrams = b.datagrams \o r.datagrams,
            !.successCount = IF r.threw THEN b.successCount ELSE b.successCount + 1,
            !.next = b.next + 1]

Counted(b, r) ==
  [b EXCEPT !.datagrams = b.datagrams \o r.datagrams,
            !.successCount = IF r.threw THEN b.successCount ELSE b.successCount + 1,
            !.errorCount = IF r.threw THEN b.errorCount + 1 ELSE b.errorCount,
            !.next = b.next + 1]

\* The messages from the i-th on, handled one after the other.
RECURSIVE SendFrom(_, _)
SendFrom(b, i) ==
  IF i > Len(b.messages) THEN b
  ELSE SendFrom(Counted(b, SendOne(b.messages[i])), i + 1)

\* The messages the batches are made of: three that pass the checks, one
\* whose value is encoded by createOSCMessage although the send fails, and
\* one for each check that fails.
BatchMsgs ==
  {[address |-> Str(<<47, 97>>), type_tags |-> <<>>, values |-> <<>>],
   [address |-> Str(<<47, 97, 98>>), type_tags |-> <<>>, values |-> <<IntV(0 - 2)>>],
   [address |-> Str(<<47, 97>>), type_tags |-> <<Code("s")>>,
    values |-> <<Str(<<104, 101, 108, 108, 111>>)>>],
   [address |-> Str(<<97>>), type_tags |-> <<>>, values |-> <<>>],
   [address |-> Undefined, type_tags |-> <<>>, values |-> <<>>],
   [address |-> Str(<<47, 97>>), type_tags |-> <<Code("x")>>, values |-> <<IntV(0 - 2)>>],
   [address |-> Str(<<47, 97>>), type_tags |-> <<Code("i"), Code("i")>>,
    values |-> <<IntV(0 - 2)>>]}

\* The batches: every one of up to MaxBatch messages, and one of
\* MaxBatchMessages + 1 messages that pass the checks.
Batches ==
  SeqsUpTo(BatchMsgs, MaxBatch)
    \cup {[i \in 1..(MaxBatchMessages + 1) |->
             [address |-> Str(<<47, 97>>), type_tags |-> <<>>, values |-> <<>>]]}

-----------------------------------------------------------------------------
(* The pattern store: loadPatterns, save_osc_pattern, delete_osc_pattern *)

\* The number of save_osc_pattern calls of one run.
MaxSaves == 3

\* The addresses of the patterns.
PatternAddresses == {<<47, 97>>, <<47, 98>>}

\* A pattern of the file: its address, its description (0 when it has
\* none), createdAt and version (0 when the field is absent).
Pattern(address, description, createdAt, version) ==
  [address |-> address, description |-> description, createdAt |-> createdAt,
   version |-> version]

PatternsInit ==
  /\ patternsFile = [patterns |-> <<>>, totalPatterns |-> 0]
  /\ patternOp = [op |-> "none"]
  /\ now = 1

\* The filter of loadPatterns (lines 1563-1572).
IsValidPattern(pattern) ==
  /\ pattern.address # <<>>
  /\ pattern.address[1] = Code("/")
  /\ pattern.description # 0

\* loadPatterns (lines 1556-1592): the valid patterns, metadata.totalPatterns
\* set to their number (line 1578), then originalCount read from that
\* metadata (line 1584) and compared with the number of valid patterns to
\* decide whether to save.
originalCount(metadata) == metadata.totalPatterns

loadPatterns(content) ==
  LET validPatterns == SelectSeq(content.patterns, IsValidPattern)
      metadata == [totalPatterns |-> Len(validPatterns)]
      data == [patterns |-> validPatterns, totalPatterns |-> metadata.totalPatterns]
  IN [data |-> data,
      saved |-> Len(validPatterns) # originalCount(metadata)]

\* The file after loadPatterns returned.
AfterLoad(content) ==
  IF loadPatterns(content).saved THEN loadPatterns(content).data ELSE content

\* findIndex(p => p.address === address) (line 1410), 0 when there is none.
FindIndex(patterns, address) ==
  IF \E i \in 1..Len(patterns) : patterns[i].address = address
  THEN CHOOSE i \in 1..Len(patterns) :
         /\ patterns[i].address = address
         /\ \A j \in 1..(i - 1) : patterns[j].address # address
  ELSE 0

\* patternObject (lines 1412-1423): createdAt of the existing entry or the
\* time of the call, version (existing.version || 1) + 1 or 1.
PatternObjectRestarted(patterns, address, description) ==
  Pattern(address, description, now, 1)

PatternObject(patterns, address, description) ==
  LET existingIndex == FindIndex(patterns, address)
  IN IF existingIndex > 0
     THEN Pattern(address, description, patterns[existingIndex].createdAt,
                  (IF patterns[existingIndex].version = 0 THEN 1
                   ELSE patterns[existingIndex].version) + 1)
     ELSE Pattern(address, description, now, 1)

\* The data handleSavePattern saves (lines 1407-1447): the entry replaced
\* where it is, or the pattern pushed.
Saved(data, address, description) ==
  LET existingIndex == FindIndex(data.patterns, address)
      patternObject == PatternObject(data.patterns, address, description)
  IN [data EXCEPT !.patterns =
        IF existingIndex > 0
        THEN [data.patterns EXCEPT ![existingIndex] = patternObject]
        ELSE Append(data.patterns, patternObject)]

\* The data handleDeletePattern saves (lines 1515-1541).
Deleted(data, address) ==
  LET filteredPatterns ==
        SelectSeq(data.patterns, LAMBDA pattern : pattern.address # address)
  IN [patterns |-> filteredPatterns, totalPatterns |-> Len(filteredPatterns)]

-----------------------------------------------------------------------------
(* Parameter streams: startParameterStream, updateStreamParameter,
   stopParameterStream *)

\* The number of streams started in one run, the time the clock reaches,
\* and the number of messages the streams send.
MaxStreams == 2
MaxTime == 2
MaxStreamSent == 2

ParameterIds == {"p", "q"}

\* config.duration: none (0, the code's null) or one tick of the clock.
Durations == {0, 1}

StreamsInit ==
  /\ streams = <<>>
  /\ parameterStreams = [id \in ParameterIds |-> 0]
  /\ time = 0
  /\ streamSent = <<>>
  /\ stoppedIds = {}

\* stopParameterStream(parameterId) (lines 708-718): the stream the map
\* holds for the parameter is made inactive, its interval cleared and the
\* entry deleted.  streams and parameterStreams after the call.
StoppedStreams(ss, map, parameterId) ==
  IF map[parameterId] = 0 THEN ss
  ELSE [ss EXCEPT ![map[parameterId]].isActive = FALSE,
                  ![map[parameterId]].intervalSet = FALSE]

StoppedMap(map, parameterId) == [map EXCEPT ![parameterId] = 0]

-----------------------------------------------------------------------------
(* The state machine *)

Init ==
  /\ phase = "idle"
  /\ sent = [kind |-> "none"]
  /\ wire = <<>>
  /\ stack = <<>>
  /\ log = <<>>
  /\ escaped = {}
  /\ file = <<>>
  /\ WritesInit
  /\ batch = NoBatch
  /\ PatternsInit
  /\ StreamsInit

\* A caller sends one message: after the address check, createOSCMessage
\* encodes it and the buffer is sent (handleSendOSC passes no typeTags,
\* handleBatchSendOSC passes them).  A refused request throws before
\* anything is encoded: nothing is sent.
SendMessage ==
  /\ phase = "idle"
  /\ \E address \in {Str(a) : a \in Addresses} \cup RefusedAddresses,
        values \in SeqsUpTo(ArgValues, MaxArgs) :
       \E typeTags \in TypeTagChoices(values) :
         /\ sent' = [kind |-> "message", address |-> address.v,
                     given |-> address.k = "str",
                     values |-> values, typeTags |-> typeTags, cut |-> 0 - 1]
         /\ IF AddressInvalid(address)
            THEN /\ wire' = <<>>
                 /\ phase' = "rejected"
            ELSE LET r == createOSCMessage(address, values, typeTags)
                 IN /\ ~r.threw
                    /\ wire' = r.buf
                    /\ phase' = "sent"
  /\ UNCHANGED <<stack, log, escaped, file>>
  /\ UNCHANGED aside

\* A caller sends messages as a bundle (handleSendOSCBundle, and
\* handleBatchSendOSC in bundle mode): every address is checked, then
\* createOSCBundle encodes the messages and the buffer is sent.
SendBundle ==
  /\ phase = "idle"
  /\ \E n \in 1..MaxMsgs :
       \E messages \in [1..n -> BundleMsgs \cup RefusedMsgs], timetag \in Timetags :
         /\ sent' = [kind |-> "bundle", messages |-> messages,
                     timetag |-> timetag, cut |-> 0 - 1]
         /\ IF \E i \in 1..n : AddressInvalid(AddressOf(messages[i]))
            THEN /\ wire' = <<>>
                 /\ phase' = "rejected"
            ELSE LET r == createOSCBundle(messages, timetag)
                 IN /\ ~r.threw
                    /\ wire' = r.buf
                    /\ phase' = "sent"
  /\ UNCHANGED <<stack, log, escaped, file>>
  /\ UNCHANGED aside

\* createOSCBundle is handed a bundle whose one element is itself a bundle
\* (an object with timetag and elements) holding one message, and the
\* buffer it returns is sent.
SendNestedBundle ==
  /\ phase = "idle"
  /\ \E message \in BundleMsgs, timetag \in Timetags, inner \in Timetags :
       LET nested == [timetag |-> inner, elements |-> <<message>>]
           r == createOSCBundle(<<nested>>, timetag)
       IN /\ ~r.threw
          /\ wire' = r.buf
          /\ sent' = [kind |-> "tree", timetag |-> timetag, inner |-> inner,
                      message |-> message]
  /\ phase' = "sent"
  /\ UNCHANGED <<stack, log, escaped, file>>
  /\ UNCHANGED aside

\* A peer sends a bundle of n well-formed elements, n around the limit of
\* line 177, at the top level or as the one element of an outer bundle.
InjectLargeBundle ==
  /\ phase = "idle"
  /\ \E n \in (MaxBundleElements - 1)..(MaxBundleElements + ExtraElements),
        nestedIn \in BOOLEAN :
       LET message == [address |-> <<47, 97>>, args |-> <<>>]
           r == createOSCBundle([i \in 1..n |-> message], 0)
       IN /\ wire' = IF nestedIn
                     THEN BundleHeader \o ImmediateBytes \o Sized(r.buf)
                     ELSE r.buf
          /\ sent' = [kind |-> "large", n |-> n, nestedIn |-> nestedIn]
  /\ phase' = "sent"
  /\ UNCHANGED <<stack, log, escaped, file>>
  /\ UNCHANGED aside

\* A peer sends a bundle whose elements are well formed up to one with a
\* zero or overrunning size.
InjectMalformed ==
  /\ phase = "idle"
  /\ \E good \in SeqsUpTo(BundleMsgs, MaxMsgs), bad \in BadPrefixes, tail \in Tails :
       /\ wire' = createOSCBundle(good, 0).buf \o bad \o tail
       /\ sent' = [kind |-> "malformed", messages |-> good, bad |-> bad,
                   tail |-> tail]
  /\ phase' = "sent"
  /\ UNCHANGED <<stack, log, escaped, file>>
  /\ UNCHANGED aside

\* A peer sends arbitrary bytes: the first n bytes of an address chunk, a
\* tag chunk and argument chunks.
InjectRaw ==
  /\ phase = "idle"
  /\ \E a \in RawAddrChunks, t \in RawTagChunks,
        args \in SeqsUpTo(RawArgChunks, MaxRawArgs) :
       LET bytes == a \o t \o Concat(args)
       IN \E n \in 0..Len(bytes) :
            /\ wire' = subarray(bytes, 0, n)
            /\ sent' = [kind |-> "raw"]
  /\ phase' = "sent"
  /\ UNCHANGED <<stack, log, escaped, file>>
  /\ UNCHANGED aside

\* A peer sends the first n bytes of a bundle of arbitrary elements.
InjectRawBundle ==
  /\ phase = "idle"
  /\ \E elems \in SeqsUpTo(RawElemChunks, MaxRawElems) :
       LET bytes == BundleHeader \o ImmediateBytes \o Concat(elems)
       IN \E n \in 8..Len(bytes) :
            /\ wire' = subarray(bytes, 0, n)
            /\ sent' = [kind |-> "rawbundle"]
  /\ phase' = "sent"
  /\ UNCHANGED <<stack, log, escaped, file>>
  /\ UNCHANGED aside

\* A peer sends bundles nested d deep.
InjectChain ==
  /\ phase = "idle"
  /\ \E d \in 1..MaxDepth :
       /\ wire' = Chain(d)
       /\ sent' = [kind |-> "chain", depth |-> d]
  /\ phase' = "sent"
  /\ UNCHANGED <<stack, log, escaped, file>>
  /\ UNCHANGED aside

\* A caller sends a message with one integer argument, without type tags
\* (handleSendOSC) or with the tag 'i' (handleBatchSendOSC).
SendInteger ==
  /\ phase = "idle"
  /\ \E n \in Int32Probes, typeTags \in {<<>>, <<105>>} :
       LET r == createOSCMessage(Str(<<47, 97>>), <<NumberOf(n)>>, typeTags)
       IN /\ ~r.threw
          /\ wire' = r.buf
          /\ sent' = [kind |-> "integer", n |-> n, typeTags |-> typeTags]
  /\ phase' = "sent"
  /\ UNCHANGED <<stack, log, escaped, file>>
  /\ UNCHANGED aside

\* A caller sends a bundle of one message with the timetag timestamp.
SendTimedBundle ==
  /\ phase = "idle"
  /\ \E timetag \in TimetagProbes :
       /\ wire' = createOSCBundle(<<[address |-> <<47, 97>>, args |-> <<>>]>>,
                                  timetag).buf
       /\ sent' = [kind |-> "timed", timetag |-> timetag]
  /\ phase' = "sent"
  /\ UNCHANGED <<stack, log, escaped, file>>
  /\ UNCHANGED aside

\* A peer sends a bundle of one message with timetag bytes of its choice.
InjectTimetag ==
  /\ phase = "idle"
  /\ \E bytes \in RawTimetags :
       /\ wire' = BundleHeader \o bytes \o Sized(<<47, 97, 0, 0>>)
       /\ sent' = [kind |-> "rawtimed", bytes |-> bytes]
  /\ phase' = "sent"
  /\ UNCHANGED <<stack, log, escaped, file>>
  /\ UNCHANGED aside

\* A peer sends the first n bytes of a packet that starts like a bundle.
InjectLookalike ==
  /\ phase = "idle"
  /\ \E head \in LookalikeHeads :
       LET bytes == head \o ImmediateBytes \o Sized(<<47, 97, 0, 0>>)
       IN \E n \in 0..Len(bytes) :
            /\ wire' = subarray(bytes, 0, n)
            /\ sent' = [kind |-> "lookalike"]
  /\ phase' = "sent"
  /\ UNCHANGED <<stack, log, escaped, file>>
  /\ UNCHANGED aside

\* The datagram is clipped on its way: only its first cut bytes arrive.
Truncate ==
  /\ phase = "sent"
  /\ sent.kind \in {"message", "bundle"}
  /\ sent.cut = 0 - 1
  /\ \E cut \in 0..(Len(wire) - 1) :
       /\ wire' = subarray(wire, 0, cut)
       /\ sent' = [sent EXCEPT !.cut = cut]
  /\ UNCHANGED <<phase, stack, log, escaped, file>>
  /\ UNCHANGED aside

\* The outcome of entering handleOSCBundle(buffer) from a caller whose
\* stack is stk: a new frame, or the catch's work when line 164 throws.
Enter(buffer, stk) ==
  IF TimetagMissing(buffer)
  THEN LET c == handleOSCBundleCatch(buffer)
       IN [stack |-> stk, logged |-> c.logged, escaped |-> c.escaped,
           returned |-> TRUE]
  ELSE [stack |-> Append(stk, NewFrame(buffer)), logged |-> <<>>,
        escaped |-> FALSE, returned |-> FALSE]

\* The socket's 'message' handler (lines 100-112) up to its first await.
\* An exception leaving handleOSCBundle ends the handling of the packet in
\* the handler's own catch.
Receive ==
  /\ phase = "sent"
  /\ IF isOSCBundle(wire)
     THEN LET r == Enter(wire, <<>>)
          IN /\ stack' = (IF r.escaped THEN <<>> ELSE r.stack)
             /\ log' = log \o r.logged
             /\ file' = atomicWriteOSCMessages(file, r.logged)
             /\ escaped' = (IF r.escaped THEN escaped \cup {"handleOSCBundle"}
                            ELSE escaped)
             /\ phase' = (IF r.returned THEN "done" ELSE "decoding")
     ELSE /\ log' = Append(log, handleOSCMessage(wire))
          /\ file' = atomicWriteOSCMessage(file, handleOSCMessage(wire))
          /\ phase' = "done"
          /\ UNCHANGED <<stack, escaped>>
  /\ UNCHANGED <<sent, wire>>
  /\ UNCHANGED aside

\* One iteration of the loop of the innermost handleOSCBundle (lines
\* 177-210): the element is a message, handled and recorded at once, or a
\* nested bundle, whose handling the frame awaits.  An exception leaving the
\* nested call leaves every enclosing call as well (each has the same
\* catch).
BundleElement ==
  /\ phase = "decoding"
  /\ HasElement(Top)
  /\ LET f == Top
         elementSize == SizeOf(readUInt32BE(f.buffer, f.offset))
         elementData == ElementData(f.buffer, f.offset + 4, elementSize)
         g == [f EXCEPT !.offset = f.offset + 4 + elementSize]
     IN IF isOSCBundle(elementData)
        THEN LET element == [type |-> "bundle", size |-> elementSize]
                 r == Enter(elementData,
                            Append(Below, [g EXCEPT !.pending = <<element>>]))
             IN /\ log' = log \o r.logged
                /\ file' = atomicWriteOSCMessages(file, r.logged)
                /\ escaped' = (IF r.escaped THEN escaped \cup {"handleOSCBundle"}
                               ELSE escaped)
                /\ stack' = (IF r.escaped THEN <<>>
                             ELSE IF r.returned THEN Append(Below, Pushed(g, element))
                             ELSE r.stack)
                /\ phase' = (IF r.escaped THEN "done" ELSE "decoding")
        ELSE /\ log' = Append(log, handleOSCMessage(elementData))
             /\ file' = atomicWriteOSCMessage(file, handleOSCMessage(elementData))
             /\ stack' = Append(Below,
                                Pushed(g, [type |-> "message", size |-> elementSize]))
             /\ UNCHANGED <<phase, escaped>>
  /\ UNCHANGED <<sent, wire>>
  /\ UNCHANGED aside

\* The loop of the innermost handleOSCBundle ends (its condition fails or
\* one of the two breaks is taken): bundleInfo is written and the call
\* returns; the caller that awaited it records its element.
BundleFinish ==
  /\ phase = "decoding"
  /\ ~HasElement(Top)
  /\ log' = Append(log, BundleInfo(Top))
  /\ file' = atomicWriteOSCMessage(file, BundleInfo(Top))
  /\ IF Len(stack) = 1
     THEN /\ stack' = <<>>
          /\ phase' = "done"
     ELSE /\ stack' = Append(SubSeq(Below, 1, Len(Below) - 1),
                             Pushed(Below[Len(Below)], Below[Len(Below)].pending[1]))
          /\ phase' = "decoding"
  /\ UNCHANGED <<sent, wire, escaped>>
  /\ UNCHANGED aside

\* A logging run: the server logs a message (logOSCMessage, lines
\* 1665-1675), which awaits atomicWriteOSCMessage.
LogWrite ==
  /\ phase \in {"idle", "logging"}
  /\ NextId <= MaxWrites
  /\ file' = atomicWriteOSCMessage(file, LogEntry(NextId, "outbound"))
  /\ phase' = "logging"
  /\ UNCHANGED <<sent, wire, stack, log, escaped>>
  /\ UNCHANGED aside

\* A logging run: the dashboard's receive socket stores a message it
\* received in the same file (dashboard-server.js, line 983).
DashboardWrite ==
  /\ phase \in {"idle", "logging"}
  /\ NextId <= MaxWrites
  /\ file' = addOSCMessage(file, LogEntry(NextId, "inbound"))
  /\ phase' = "logging"
  /\ UNCHANGED <<sent, wire, stack, log, escaped>>
  /\ UNCHANGED aside

\* The frame of the steps of the overlapping log writes.
CodecIdle ==
  /\ phase = "idle"
  /\ UNCHANGED <<codecVars, batch, patternVars, streamVars>>

\* A handler calls atomicWriteOSCMessage (lines 362-373, to its first
\* await): with an entry in the map it awaits that promise, otherwise it
\* starts _performAtomicWrite and sets the entry.  The calls are numbered
\* in the order they are made; the socket is closed by cleanup().
Call(c) ==
  /\ CodecIdle
  /\ shutdown.state = "running"
  /\ calls[c].pc = "idle"
  /\ \A d \in 1..(c - 1) : calls[d].pc # "idle"
  /\ IF fileWriteQueue # 0
     THEN /\ calls' = [calls EXCEPT ![c].pc = "waiting",
                                    ![c].awaiting = fileWriteQueue]
          /\ UNCHANGED fileWriteQueue
     ELSE /\ calls' = [calls EXCEPT ![c].pc = "mkdir"]
          /\ fileWriteQueue' = c
  /\ UNCHANGED <<file, tempFile, torn, shutdown>>

\* fs.mkdir completed (line 383); fs.readFile is started.
MkdirDone(c) ==
  /\ CodecIdle
  /\ calls[c].pc = "mkdir"
  /\ calls' = [calls EXCEPT ![c].pc = "read"]
  /\ UNCHANGED <<file, fileWriteQueue, tempFile, torn, shutdown>>

\* fs.readFile completed (lines 386-392): the content is parsed, an
\* incomplete one makes JSON.parse throw and leaves messages empty; the new
\* message is pushed and the array capped (lines 395-400); fs.writeFile of
\* '<file>.tmp' is started.
ReadDone(c) ==
  /\ CodecIdle
  /\ calls[c].pc = "read"
  /\ calls' = [calls EXCEPT
       ![c].pc = "open",
       ![c].messages = performAtomicWrite(IF torn THEN <<>> ELSE file,
                                          LogEntry(c, "inbound"))]
  /\ UNCHANGED <<file, fileWriteQueue, tempFile, torn, shutdown>>

\* fs.writeFile opened '<file>.tmp' with flag 'w': the file is created, or
\* truncated when it is there.
OpenDone(c) ==
  /\ CodecIdle
  /\ calls[c].pc = "open"
  /\ tempFile' = [present |-> TRUE, content |-> <<>>, complete |-> FALSE]
  /\ calls' = [calls EXCEPT ![c].pc = "write", ![c].fd = "temp"]
  /\ UNCHANGED <<file, fileWriteQueue, torn, shutdown>>

\* fs.writeFile wrote the data through its descriptor and closed it (line
\* 404).  The descriptor's file is at '<file>.tmp', or a rename moved it to
\* the log file's path, or it was replaced there and is unlinked.
WriteDone(c) ==
  /\ CodecIdle
  /\ calls[c].pc = "write"
  /\ calls' = [calls EXCEPT ![c].pc = "rename", ![c].fd = "none"]
  /\ IF calls[c].fd = "temp"
     THEN /\ tempFile' = [present |-> TRUE, content |-> calls[c].messages,
                          complete |-> TRUE]
          /\ UNCHANGED <<file, torn>>
     ELSE IF calls[c].fd = "final"
     THEN /\ file' = calls[c].messages
          /\ torn' = FALSE
          /\ UNCHANGED tempFile
     ELSE UNCHANGED <<file, torn, tempFile>>
  /\ UNCHANGED <<fileWriteQueue, shutdown>>

\* The open descriptors after a rename of '<file>.tmp' over the log file.
Moved(cs) ==
  [d \in CallIds |->
     IF cs[d].fd = "temp" THEN [cs[d] EXCEPT !.fd = "final"]
     ELSE IF cs[d].fd = "final" THEN [cs[d] EXCEPT !.fd = "unlinked"]
     ELSE cs[d]]

\* fs.rename completed (line 405), or failed because another call renamed
\* '<file>.tmp' away (the catch of line 407); _performAtomicWrite returns
\* and its promise is fulfilled.
RenameDone(c) ==
  /\ CodecIdle
  /\ calls[c].pc = "rename"
  /\ IF tempFile.present
     THEN /\ file' = tempFile.content
          /\ torn' = ~tempFile.complete
          /\ tempFile' = [present |-> FALSE, content |-> <<>>, complete |-> FALSE]
          /\ calls' = SettledCalls(Moved(calls), c)
     ELSE /\ calls' = SettledCalls([calls EXCEPT ![c].failed = TRUE], c)
          /\ UNCHANGED <<file, torn, tempFile>>
  /\ fileWriteQueue' = SettledQueue(calls, c)
  /\ shutdown' = SettledShutdown(c)

\* cleanup() is called (lines 1650-1662): it closes the socket and awaits
\* the promises the map holds now.  started remembers the calls whose
\* _performAtomicWrite is in progress at this moment.
Cleanup ==
  /\ CodecIdle
  /\ shutdown.state = "running"
  /\ shutdown' = [state |-> IF fileWriteQueue = 0 THEN "resolved" ELSE "waiting",
                  awaited |-> fileWriteQueue,
                  started |-> {c \in CallIds : InProgress(c)}]
  /\ UNCHANGED <<file, calls, fileWriteQueue, tempFile, torn>>

NextWrites ==
  \/ \E c \in CallIds : Call(c)
  \/ \E c \in CallIds : MkdirDone(c)
  \/ \E c \in CallIds : ReadDone(c)
  \/ \E c \in CallIds : OpenDone(c)
  \/ \E c \in CallIds : WriteDone(c)
  \/ \E c \in CallIds : RenameDone(c)
  \/ Cleanup

SpecWrites == Init /\ [][NextWrites]_vars

\* The frame of the steps of batch_send_osc.
BatchStep ==
  /\ phase = "idle"
  /\ UNCHANGED <<codecVars, writeVars, patternVars, streamVars>>

\* batch_send_osc is called (lines 854-920).  When a check throws, the
\* catch of lines 1076-1096 logs 'batch_send_error' and returns the failure
\* text; otherwise the messages are processed and the sending begins.
BatchCall ==
  /\ BatchStep
  /\ batch.pc = "idle"
  /\ \E messages \in Batches, send_mode \in {"atomic", "queued", "bundle"} :
       IF BatchThrows(messages)
       THEN /\ batch' = [pc |-> "failed", messages |-> messages,
                         send_mode |-> send_mode, datagrams |-> <<>>]
            /\ file' = atomicWriteOSCMessage(file,
                         [address |-> "batch_send_error",
                          messageCount |-> Len(messages)])
       ELSE /\ batch' = [pc |-> "sending", messages |-> messages,
                         send_mode |-> send_mode, datagrams |-> <<>>,
                         successCount |-> 0, errorCount |-> 0, next |-> 1]
            /\ UNCHANGED file

\* The bundle mode (lines 927-967): createOSCBundle of the addresses and
\* values, one socket.send whose callback reports an error or none; the
\* whole batch is counted as sent or as failed.
BatchSendBundle ==
  /\ BatchStep
  /\ batch.pc = "sending"
  /\ batch.send_mode = "bundle"
  /\ LET n == Len(batch.messages)
         bundleMessages == [i \in 1..n |-> [address |-> batch.messages[i].address.v,
                                            args |-> batch.messages[i].values]]
         bundleBuffer == createOSCBundle(bundleMessages, 0)
     IN \E error \in BOOLEAN :
          /\ bundleBuffer.threw => error
          /\ batch' = [batch EXCEPT
               !.pc = "logging",
               !.datagrams = IF error THEN <<>> ELSE <<bundleBuffer.buf>>,
               !.successCount = IF error THEN 0 ELSE n,
               !.errorCount = IF error THEN n ELSE 0]
  /\ UNCHANGED file

\* The atomic mode (lines 969-1008): the callbacks of map run one after the
\* other, each to its end (none reaches an await), then Promise.all is
\* awaited and its rejection caught.
BatchSendAtomic ==
  /\ BatchStep
  /\ batch.pc = "sending"
  /\ batch.send_mode = "atomic"
  /\ batch' = [SendFrom(batch, 1) EXCEPT !.pc = "logging"]
  /\ UNCHANGED file

\* The queued mode (lines 1010-1038): one message of the loop.
BatchSendQueued ==
  /\ BatchStep
  /\ batch.pc = "sending"
  /\ batch.send_mode = "queued"
  /\ LET b == Counted(batch, SendOne(batch.messages[batch.next]))
     IN batch' = [b EXCEPT !.pc = IF b.next > Len(b.messages) THEN "logging"
                                  ELSE "sending"]
  /\ UNCHANGED file

\* The batch is logged and the summary returned (lines 1041-1074).
BatchReturn ==
  /\ BatchStep
  /\ batch.pc = "logging"
  /\ file' = atomicWriteOSCMessage(file,
               [address |-> "batch_send", messageCount |-> Len(batch.messages),
                success |-> batch.successCount, errors |-> batch.errorCount])
  /\ batch' = [pc |-> "returned", messages |-> batch.messages,
               send_mode |-> batch.send_mode, datagrams |-> batch.datagrams,
               summary |-> [totalMessages |-> Len(batch.messages),
                            successful |-> batch.successCount,
                            failed |-> batch.errorCount]]

NextBatch ==
  \/ BatchCall
  \/ BatchSendBundle
  \/ BatchSendAtomic
  \/ BatchSendQueued
  \/ BatchReturn

SpecBatch == Init /\ [][NextBatch]_vars

\* The frame of the steps of the pattern tools.
PatternStep ==
  /\ phase = "idle"
  /\ UNCHANGED <<codecVars, file, writeVars, batch, streamVars>>

\* save_osc_pattern (handleSavePattern, lines 1358-1447): a request that
\* fails validation throws before the file is read.
SavePattern ==
  /\ PatternStep
  /\ now <= MaxSaves
  /\ \E address \in PatternAddresses \cup {<<97>>}, description \in {1, 2} :
       IF address[1] # Code("/")
       THEN /\ patternOp' = [op |-> "save_rejected", address |-> address]
            /\ UNCHANGED <<patternsFile, now>>
       ELSE /\ patternOp' = [op |-> "save", address |-> address,
                             description |-> description, at |-> now]
            /\ patternsFile' =
                 Saved(loadPatterns(patternsFile).data, address, description)
            /\ now' = now + 1

\* delete_osc_pattern (handleDeletePattern, lines 1505-1553): nothing is
\* saved when no pattern has the address.
DeletePattern ==
  /\ PatternStep
  /\ \E address \in PatternAddresses :
       LET data == loadPatterns(patternsFile).data
       IN /\ patternOp' = [op |-> "delete", address |-> address]
          /\ patternsFile' =
               IF Len(Deleted(data, address).patterns) = Len(data.patterns)
               THEN AfterLoad(patternsFile)
               ELSE Deleted(data, address)
  /\ UNCHANGED now

\* get_osc_patterns (handleGetPatterns) reads the store with loadPatterns.
GetPatterns ==
  /\ PatternStep
  /\ patternOp' = [op |-> "get", wrote |-> loadPatterns(patternsFile).saved]
  /\ patternsFile' = AfterLoad(patternsFile)
  /\ UNCHANGED now

\* The dashboard stores an uploaded pattern (storePatterns): a pattern
\* object without createdAt and version, with the description of the upload
\* or none, added unless the file has a pattern of that address;
\* metadata.totalPatterns is set to the number of patterns.
StorePatterns ==
  /\ PatternStep
  /\ \E address \in PatternAddresses, description \in {0, 1} :
       LET existing == \E i \in 1..Len(patternsFile.patterns) :
                         patternsFile.patterns[i].address = address
           patterns == IF existing THEN patternsFile.patterns
                       ELSE Append(patternsFile.patterns,
                                   Pattern(address, description, 0, 0))
       IN patternsFile' = [patterns |-> patterns, totalPatterns |-> Len(patterns)]
  /\ patternOp' = [op |-> "store"]
  /\ UNCHANGED now

NextPatterns ==
  \/ SavePattern
  \/ DeletePattern
  \/ GetPatterns
  \/ StorePatterns

SpecPatterns == Init /\ [][NextPatterns]_vars

\* The frame of the steps of the parameter streams.
StreamStep ==
  /\ phase = "idle"
  /\ UNCHANGED <<codecVars, file, writeVars, batch, patternVars>>

\* startParameterStream(parameterId, config) (lines 638-660): a new stream
\* object is put in the map under the parameter and its interval is set.
StartStream ==
  /\ StreamStep
  /\ Len(streams) < MaxStreams
  /\ \E parameterId \in ParameterIds, duration \in Durations :
       /\ streams' = Append(streams,
            [parameterId |-> parameterId, duration |-> duration,
             startTime |-> time, isActive |-> TRUE, intervalSet |-> TRUE])
       /\ parameterStreams' = [parameterStreams EXCEPT ![parameterId] = Len(streams) + 1]
       /\ stoppedIds' = stoppedIds \ {parameterId}
  /\ UNCHANGED <<time, streamSent>>

\* stop_stream (lines 604 and 882): stopParameterStream(parameterId).
StopStream ==
  /\ StreamStep
  /\ \E parameterId \in ParameterIds :
       /\ streams' = StoppedStreams(streams, parameterStreams, parameterId)
       /\ parameterStreams' = StoppedMap(parameterStreams, parameterId)
       /\ stoppedIds' = stoppedIds \cup {parameterId}
  /\ UNCHANGED <<time, streamSent>>

\* The interval of stream object i fires: updateStreamParameter(stream)
\* (lines 662-706) returns when the stream is inactive, calls
\* stopParameterStream(stream.parameterId) when the duration has elapsed,
\* and otherwise sends the value.
StreamTick(i) ==
  /\ StreamStep
  /\ streams[i].intervalSet
  /\ LET stream == streams[i]
         elapsed == time - stream.startTime
     IN IF ~stream.isActive
        THEN UNCHANGED <<streams, parameterStreams, streamSent, stoppedIds>>
        ELSE IF stream.duration # 0 /\ elapsed >= stream.duration
        THEN /\ streams' = StoppedStreams(streams, parameterStreams, stream.parameterId)
             /\ parameterStreams' = StoppedMap(parameterStreams, stream.parameterId)
             /\ stoppedIds' = stoppedIds \cup {stream.parameterId}
             /\ UNCHANGED streamSent
        ELSE /\ Len(streamSent) < MaxStreamSent
             /\ streamSent' = Append(streamSent,
                  [parameterId |-> stream.parameterId, stream |-> i])
             /\ UNCHANGED <<streams, parameterStreams, stoppedIds>>
  /\ UNCHANGED time

\* Date.now() advances.
Advance ==
  /\ StreamStep
  /\ time < MaxTime
  /\ time' = time + 1
  /\ UNCHANGED <<streams, parameterStreams, streamSent, stoppedIds>>

NextStreams ==
  \/ StartStream
  \/ StopStream
  \/ \E i \in 1..Len(streams) : StreamTick(i)
  \/ Advance

SpecStreams == Init /\ [][NextStreams]_vars

Next ==
  \/ SendMessage
  \/ SendBundle
  \/ SendNestedBundle
  \/ InjectLargeBundle
  \/ InjectMalformed
  \/ InjectRaw
  \/ InjectRawBundle
  \/ InjectChain
  \/ InjectLookalike
  \/ SendInteger
  \/ SendTimedBundle
  \/ InjectTimetag
  \/ Truncate
  \/ Receive
  \/ BundleElement
  \/ BundleFinish
  \/ LogWrite
  \/ DashboardWrite

Spec == Init /\ [][Next]_vars

-----------------------------------------------------------------------------
(* Properties *)

Last(seq) == seq[Len(seq)]

\* The datagram on the wire is what the encoder returned, not clipped.
Unclipped == sent.kind \in {"message", "bundle"} /\ sent.cut = 0 - 1

\* The caller gave no type tags or the tags that fit the values.
FittingTags == sent.typeTags \in {<<>>, DeclaredTags(sent.values)}

\* Where the argument section of an encoded message starts, read off the
\* bytes: after the padded address and the padded type-tag string.
TagStart(buffer) == SkipPadding(buffer, IndexOfZero(buffer, 0) + 1)
ArgStart(buffer) == SkipPadding(buffer, IndexOfZero(buffer, TagStart(buffer)) + 1)

\* The type tags an encoded message carries (without the comma).
EmittedTags(buffer) ==
  subarray(buffer, TagStart(buffer) + 1, IndexOfZero(buffer, TagStart(buffer)))

\* The payload length the OSC format gives a tag: 4 bytes for 'i' and 'f',
\* the padded string for 's', nothing for 'T', 'F' and 'N'.
DeclaredPayload(tag, value) ==
  IF tag \in {Code("i"), Code("f")} THEN 4
  ELSE IF tag = Code("s")
       THEN 4 * ((Len(BufferFrom(String(value))) + 4) \div 4)
  ELSE 0

RECURSIVE DeclaredLength(_, _, _)
DeclaredLength(tags, values, i) ==
  IF i > Len(tags) \/ i > Len(values) THEN 0
  ELSE DeclaredPayload(tags[i], values[i]) + DeclaredLength(tags, values, i + 1)

\* C1: a message with an address starting with '/' and arguments that are
\* int32, float32, strings, booleans or nil decodes, after createOSCMessage,
\* to the same address and the same argument list.
C1_RoundTrip ==
  (phase = "done" /\ Unclipped /\ sent.kind = "message" /\ FittingTags)
    => /\ log[1].address = sent.address
       /\ log[1].args = sent.values

\* C2: in a message produced by createOSCMessage the argument section is as
\* long as the emitted type tags declare: true, false and nil contribute no
\* bytes.
C2_ZeroLengthPayload ==
  (phase = "sent" /\ Unclipped /\ sent.kind = "message" /\ FittingTags)
    => Len(wire) - ArgStart(wire)
         = DeclaredLength(EmittedTags(wire), sent.values, 1)

\* C3: the length of every buffer createOSCMessage or createOSCBundle
\* returns is a multiple of 4.
C3_PaddingInvariant ==
  (phase = "sent" /\ (Unclipped \/ sent.kind = "tree")) => Len(wire) % 4 = 0

\* C3 witness: a message whose address and string argument both need
\* padding, encoded under type tags that do not fit the values.
C3_Witness ==
  /\ phase = "sent" /\ sent.kind = "message" /\ sent.cut = 0 - 1
  /\ sent.address = <<47, 97>>
  /\ sent.values = <<Str(<<104, 101, 108, 108, 111>>), Str(<<233>>)>>
  /\ sent.typeTags = <<102, 84>>

\* C4: whatever bytes arrive, no exception leaves the decoding: a packet
\* that is not a bundle yields its one message record, a bundle yields a
\* '#bundle' or '#bundle_error' record as its last record.
C4_NoExceptionEscapes ==
  /\ escaped = {}
  /\ phase = "done" =>
       /\ log # <<>>
       /\ isOSCBundle(wire) => Last(log).type \in {"bundle", "bundle_error"}
       /\ ~isOSCBundle(wire) => (Len(log) = 1 /\ log[1].type = "message")

\* C4 witness: a bundle from a peer holding a nested bundle too short for
\* its timetag: the nested call logs the error, the outer one completes.
C4_Witness ==
  /\ phase = "done" /\ sent.kind = "rawbundle"
  /\ \E i \in 1..Len(log) : log[i].type = "bundle_error"
  /\ Last(log).type = "bundle"
  /\ Last(log).args.elementCount = 2

\* The end offset of the payload of argument i in the encoded message.
ArgEnd(buffer, values, typeTags, i) ==
  ArgStart(buffer)
    + Len(Concat([j \in 1..i |-> ArgBuffer(values[j], j - 1, typeTags).buf]))

\* The arguments whose payload lies wholly before the cut.
WhollyBefore(buffer, values, typeTags, cut) ==
  SubSeq(values, 1,
         Cardinality({i \in 1..Len(values) : ArgEnd(buffer, values, typeTags, i) <= cut}))

\* Numbers and ASCII strings only: the arguments whose encoding does not
\* depend on the handling of 'T', 'F', 'N' or of UTF-8.
PlainValues(values) ==
  \A i \in 1..Len(values) :
    \/ values[i].k = "num"
    \/ (values[i].k = "str" /\ \A j \in 1..Len(values[i].v) : values[i].v[j] < 128)

\* C5: a valid message cut off inside its argument section decodes to
\* exactly the arguments that lay wholly before the cut.
C5_TruncationYieldsPrefix ==
  (/\ phase = "done" /\ sent.kind = "message" /\ sent.cut >= 0
   /\ FittingTags /\ PlainValues(sent.values)
   /\ LET full == createOSCMessage(Str(sent.address), sent.values, sent.typeTags).buf
      IN sent.cut >= ArgStart(full))
    => LET full == createOSCMessage(Str(sent.address), sent.values, sent.typeTags).buf
       IN log[1].args = WhollyBefore(full, sent.values, sent.typeTags, sent.cut)

\* C6: a bundle built by createOSCBundle from n messages is decoded element
\* by element, in order, each element yielding the address and arguments of
\* its message, and the bundle record counts n elements.
C6_BundleRoundTrip ==
  (phase = "done" /\ Unclipped /\ sent.kind = "bundle")
    => /\ Len(log) = Len(sent.messages) + 1
       /\ \A i \in 1..Len(sent.messages) :
            /\ log[i].type = "message"
            /\ log[i].address = sent.messages[i].address
            /\ log[i].args = sent.messages[i].args
       /\ Last(log).type = "bundle"
       /\ Last(log).args.elementCount = Len(sent.messages)

\* C7: a bundle holding one nested bundle holding one message decodes to
\* the same three levels: the message, the nested bundle around it, the
\* outer bundle around that.
C7_NestedBundleRoundTrip ==
  (phase = "done" /\ sent.kind = "tree")
    => /\ Len(log) = 3
       /\ log[1].type = "message"
       /\ log[1].address = sent.message.address
       /\ log[2].type = "bundle"
       /\ log[2].args.elementCount = 1
       /\ log[3].type = "bundle"
       /\ log[3].args.elements = <<[type |-> "bundle", size |-> Len(wire) - 20]>>

\* What decoding the encoded message of a bundle element logs.
ElementRecord(message) ==
  handleOSCMessage(createOSCMessage(Str(message.address), message.args, <<>>).buf)

\* C8: when an element's declared length is zero or exceeds the bytes that
\* remain, decoding of the bundle stops there: the elements before it have
\* been decoded and are kept in the bundle record, nothing behind it is
\* decoded, and no exception is raised.
C8_MalformedElementStops ==
  (phase = "done" /\ sent.kind = "malformed")
    => /\ escaped = {}
       /\ Len(log) = Len(sent.messages) + 1
       /\ \A i \in 1..Len(sent.messages) : log[i] = ElementRecord(sent.messages[i])
       /\ Last(log).type = "bundle"
       /\ Last(log).args.elementCount = Len(sent.messages)
       /\ \A i \in 1..Len(sent.messages) :
            Last(log).args.elements[i].type = "message"

\* C8 witness: two well-formed elements, then a size that overruns the
\* buffer with bytes behind it.
C8_Witness ==
  /\ phase = "done" /\ sent.kind = "malformed"
  /\ Len(sent.messages) = 2
  /\ sent.bad = <<0, 0, 0, 64>>
  /\ sent.tail = Sized(<<47, 97, 0, 0>>)
  /\ Len(log) = 3

\* Every nested activation works on a strictly shorter buffer than the
\* activation that called it.
StrictlyShorter ==
  \A i \in 2..Len(stack) : Len(stack[i].buffer) < Len(stack[i - 1].buffer)

RECURSIVE Work(_, _)
\* The bytes the activations stack[i..] have not yet consumed, plus one per
\* activation: a natural number.
Work(stk, i) ==
  IF i > Len(stk) THEN 0
  ELSE (Len(stk[i].buffer) - stk[i].offset) + 1 + Work(stk, i + 1)

\* C9: handleOSCBundle terminates on every buffer: each recursive call gets
\* a strictly shorter buffer, so the depth of the recursion stays below the
\* length of the packet; while the packet is being decoded there is an
\* innermost activation to step and every caller holds the element it
\* awaits; and every step of the decoding strictly decreases the work left,
\* a natural number.
C9_BundleDecodingTerminates ==
  /\ [](/\ StrictlyShorter
        /\ Len(stack) <= Len(wire)
        /\ \A i \in 1..Len(stack) : stack[i].offset <= Len(stack[i].buffer)
        /\ \A i \in 1..(Len(stack) - 1) : stack[i].pending # <<>>
        /\ phase = "decoding" => stack # <<>>)
  /\ [][phase = "decoding" => Work(stack', 1) < Work(stack, 1)]_vars

\* C9 witness: the recursion is MaxDepth activations deep.
C9_Witness ==
  /\ phase = "decoding" /\ sent.kind = "chain"
  /\ Len(stack) = MaxDepth

\* The number of message records in the log.
MessageRecords == Cardinality({i \in 1..Len(log) : log[i].type = "message"})

\* C10: at most 100 elements are decoded at each bundle level: of a bundle
\* with more than 100 well-formed elements the first 100 are processed, the
\* others are ignored, and decoding ends with a '#bundle' record.
C10_ElementLimit ==
  /\ \A i \in 1..Len(stack) :
       /\ stack[i].elementCount <= MaxBundleElements
       /\ Len(stack[i].elements) = stack[i].elementCount
  /\ \A i \in 1..Len(log) :
       log[i].type = "bundle" => log[i].args.elementCount <= MaxBundleElements
  /\ (phase = "done" /\ sent.kind = "large")
       => LET level == IF sent.nestedIn THEN Len(log) - 1 ELSE Len(log)
          IN /\ escaped = {}
             /\ MessageRecords = Min(sent.n, MaxBundleElements)
             /\ level = MessageRecords + 1
             /\ log[level].type = "bundle"
             /\ log[level].args.elementCount = Min(sent.n, MaxBundleElements)
             /\ Last(log).type = "bundle"

\* C10 witness: a nested bundle of more than 100 elements has been decoded.
C10_Witness ==
  /\ phase = "done" /\ sent.kind = "large"
  /\ sent.n > MaxBundleElements
  /\ sent.nestedIn
  /\ log[Len(log) - 1].args.elementCount = MaxBundleElements

-----------------------------------------------------------------------------
(* The layout of bundles *)

\* The bytes of '#bundle\0'.
BundleMarker == <<35, 98, 117, 110, 100, 108, 101, 0>>

\* The encoding of message i of the bundle that was sent.
ElementBytes(i) ==
  createOSCMessage(Str(sent.messages[i].address), sent.messages[i].args, <<>>).buf

RECURSIVE ElementOffset(_)
\* Where the size prefix of element i starts if the elements follow the
\* 16-byte head without gaps.
ElementOffset(i) ==
  IF i = 1 THEN 16 ELSE ElementOffset(i - 1) + 4 + Len(ElementBytes(i - 1))

\* C11: createOSCBundle writes '#bundle\0', the 8 bytes of the timetag, and
\* for each message, in input order, a 4-byte big-endian length equal to the
\* length of the message's encoding, followed by exactly those bytes; nothing
\* lies between the elements or behind the last one.
C11_BundleLayout ==
  (phase = "sent" /\ sent.kind = "bundle" /\ Unclipped)
    => LET n == Len(sent.messages)
       IN /\ subarray(wire, 0, 8) = BundleMarker
          /\ subarray(wire, 8, 16) = createOSCTimetag(sent.timetag)
          /\ \A i \in 1..n :
               /\ readUInt32BE(wire, ElementOffset(i)) = <<0, Len(ElementBytes(i))>>
               /\ subarray(wire, ElementOffset(i) + 4,
                           ElementOffset(i) + 4 + Len(ElementBytes(i)))
                    = ElementBytes(i)
          /\ Len(wire) = ElementOffset(n) + 4 + Len(ElementBytes(n))

\* C11 witness: a bundle of two messages of different lengths.
C11_Witness ==
  /\ phase = "sent" /\ sent.kind = "bundle" /\ sent.cut = 0 - 1
  /\ Len(sent.messages) = 2
  /\ Len(ElementBytes(1)) = 8
  /\ Len(ElementBytes(2)) = 20

\* The packet starts with the 8 bytes of '#bundle\0'.
StartsWithMarker ==
  Len(wire) >= 8 /\ \A i \in 1..8 : wire[i] = BundleMarker[i]

\* The packet went to handleOSCBundle: an activation of it is running, or it
\* has written the packet's last record.
HandledAsBundle ==
  \/ phase = "decoding"
  \/ phase = "done" /\ Last(log).type \in {"bundle", "bundle_error"}

\* The packet went to handleOSCMessage: one message record and no more.
HandledAsMessage ==
  phase = "done" /\ stack = <<>> /\ Len(log) = 1 /\ log[1].type = "message"

\* C12: a received packet is handled as a bundle exactly when its first 8
\* bytes are '#bundle\0'; every other packet, any packet shorter than 8
\* bytes included, is handled as a single message.
C12_BundleDetection ==
  phase \in {"decoding", "done"}
    => /\ StartsWithMarker => (HandledAsBundle /\ ~HandledAsMessage)
       /\ ~StartsWithMarker => (HandledAsMessage /\ ~HandledAsBundle)

\* C12 witness: a whole packet that starts with '#bundle' and a space has
\* been handled as a message.
C12_Witness ==
  /\ phase = "done" /\ sent.kind = "lookalike"
  /\ Len(wire) = 24 /\ wire[8] = 32
  /\ subarray(wire, 0, 7) = subarray(BundleMarker, 0, 7)
  /\ HandledAsMessage

-----------------------------------------------------------------------------
(* Timetags *)

\* The Date of unix_millis >= 0 in the form parseOSCTimetag's result is
\* kept: <<hi, lo, ms>> with unix seconds = hi * 65536 + lo.
DateOf(unix_millis) ==
  <<(unix_millis \div 1000) \div 65536, (unix_millis \div 1000) % 65536,
    unix_millis % 1000>>

\* The timetag of the bundle record that ends the log.
DecodedTimetag == Last(log).args.bundleTimetag

\* What the decoder makes of the 8 bytes of the immediate timetag.
DecodedImmediate == parseOSCTimetag(<<0, 0, 0, 0, 0, 0, 0, 1>>)

\* C13: the Immediate timetag (timestamp 0) is encoded as the bytes
\* 00 00 00 00 00 00 00 01, and the value decoded from these bytes is
\* decoded from no other timetag: it can be told from every time.
C13_TimetagImmediate ==
  /\ (phase = "sent" /\ sent.kind = "timed" /\ sent.timetag = 0)
       => subarray(wire, 8, 16) = <<0, 0, 0, 0, 0, 0, 0, 1>>
  /\ (phase = "done" /\ sent.kind \in {"timed", "rawtimed"})
       => (DecodedTimetag = DecodedImmediate
             <=> subarray(wire, 8, 16) = <<0, 0, 0, 0, 0, 0, 0, 1>>)

\* C14: a bundle sent with the timetag unix_millis is decoded to a time
\* whose millisecond value is unix_millis.
C14_TimetagMillisecondFidelity ==
  (phase = "done" /\ sent.kind = "timed")
    => DecodedTimetag = DateOf(sent.timetag)

-----------------------------------------------------------------------------
(* Address validation at the send paths *)

\* The request holds a message whose address is missing, empty or does not
\* start with '/'.
RequestHasBadAddress ==
  \/ /\ sent.kind = "message"
     /\ (~sent.given \/ sent.address = <<>> \/ sent.address[1] # 47)
  \/ /\ sent.kind = "bundle"
     /\ \E i \in 1..Len(sent.messages) :
          \/ "address" \notin DOMAIN sent.messages[i]
          \/ sent.messages[i].address = <<>>
          \/ sent.messages[i].address[1] # 47

\* C15: a send request holding a message whose address is empty or does not
\* start with '/' is rejected before anything is encoded or sent, and every
\* message in a datagram a send path emits has an address that starts with
\* '/'.
C15_InvalidAddressRejected ==
  /\ RequestHasBadAddress
       => (phase = "rejected" /\ wire = <<>> /\ log = <<>>)
  /\ (phase = "sent" /\ Unclipped /\ sent.kind = "message") => wire[1] = 47
  /\ (phase = "sent" /\ Unclipped /\ sent.kind = "bundle")
       => \A i \in 1..Len(sent.messages) : wire[ElementOffset(i) + 5] = 47

\* C15 witness: a bundle request whose second message has the address 'a'
\* has been rejected.
C15_Witness ==
  /\ phase = "rejected" /\ sent.kind = "bundle"
  /\ Len(sent.messages) = 2
  /\ sent.messages[1] = [address |-> <<47, 97>>, args |-> <<>>]
  /\ sent.messages[2] = [address |-> <<97>>, args |-> <<>>]

-----------------------------------------------------------------------------
(* Addresses at the decoder *)

\* The packet holds a NUL byte.
HasNul == \E j \in 1..Len(wire) : wire[j] = 0

\* The bytes of the packet that precede its first NUL.
BeforeFirstNul ==
  LET j == CHOOSE j \in 1..Len(wire) :
             wire[j] = 0 /\ \A h \in 1..(j - 1) : wire[h] # 0
  IN SubSeq(wire, 1, j - 1)

\* C16: the address of a decoded message is exactly the bytes that precede
\* the first NUL of the packet, whatever they are: nothing is rejected or
\* put in their place.
C16_AddressAcceptedAsIs ==
  (HandledAsMessage /\ HasNul)
    => BufferFrom(log[1].address) = BeforeFirstNul

-----------------------------------------------------------------------------
(* Type tags *)

\* The tag the OSC format gives a value: 'i', 'f', 's', 'T', 'F', 'N'.
FormatTag(value) ==
  CASE value.k = "num" -> (IF value.v[2] >= 0 THEN 105 ELSE 102)
    [] value.k = "str" -> 115
    [] value.k = "bool" -> (IF value.v = <<1>> THEN 84 ELSE 70)
    [] value.k = "null" -> 78

\* C17: the type-tag string createOSCMessage emits for arguments given
\* without type tags is ',' followed by one tag per argument, in order:
\* 'i' for an integer, 'f' for a float, 's' for a string, 'T' for true, 'F'
\* for false and 'N' for nil.
C17_TypeTagsPerArgument ==
  (phase = "sent" /\ sent.kind = "message" /\ Unclipped /\ sent.typeTags = <<>>)
    => LET n == Len(sent.values)
           start == TagStart(wire)
       IN /\ subarray(wire, start, start + 1 + n)
               = <<44>> \o [i \in 1..n |-> FormatTag(sent.values[i])]
          /\ At(wire, start + 1 + n) = 0

\* C18: at a type tag it does not support parseOSCArgs appends no value,
\* moves the cursor on by exactly 4 bytes and decodes the tags that follow
\* from there: under the tags 'xi' the one argument is the integer in the
\* second 4 bytes of the argument section, and there is none when the
\* section is too short to hold it.
C18_UnknownTagSkipsFourBytes ==
  (/\ HandledAsMessage /\ sent.kind = "raw"
   /\ At(wire, TagStart(wire)) = 44
   /\ subarray(wire, TagStart(wire) + 1, TagStart(wire) + 4) = <<120, 105, 0>>)
    => LET a == TagStart(wire) + 4
       IN log[1].args = IF a + 8 <= Len(wire)
                        THEN <<readInt32BE(wire, a + 4)>>
                        ELSE <<>>

\* C18 witness: under the tags 'xi' the bytes ff ff ff ff were skipped and
\* 00 00 00 01 decoded.
C18_Witness ==
  /\ HandledAsMessage /\ sent.kind = "raw"
  /\ wire = <<47, 97, 0, 0, 44, 120, 105, 0, 255, 255, 255, 255, 0, 0, 0, 1>>
  /\ log[1].args = <<IntV(1)>>

-----------------------------------------------------------------------------
(* 32-bit integers *)

\* The 4 bytes of n (-2^31 <= n < 2^31) in big-endian two's complement,
\* from the 16-bit halves of n modulo 2^32.
TwosComplement(n) ==
  LET hi == (n \div 65536) % 65536
      lo == n % 65536
  IN <<hi \div 256, hi % 256, lo \div 256, lo % 256>>

\* C19: an integer n of the int32 range is encoded under the tag 'i' as
\* exactly the 4 bytes of its big-endian two's complement, and those bytes
\* are decoded back to n.
C19_Int32RoundTrip ==
  sent.kind = "integer"
    => /\ phase = "sent"
            => wire = <<47, 97, 0, 0, 44, 105, 0, 0>> \o TwosComplement(sent.n)
       /\ phase = "done"
            => (HandledAsMessage /\ log[1].args = <<NumberOf(sent.n)>>)

\* C19 witness: -2^31 has been sent and decoded.
C19_Witness ==
  /\ phase = "done" /\ sent.kind = "integer"
  /\ sent.n = (0 - 2147483647) - 1
  /\ wire = <<47, 97, 0, 0, 44, 105, 0, 0, 128, 0, 0, 0>>
  /\ log[1].args = <<Num(0 - 1, 31)>>

-----------------------------------------------------------------------------
(* C20: the cap of the log file *)

\* The records of the file are the most recent ones of the logging run, in
\* the order they were written.
MostRecentInOrder ==
  \A i \in 1..Len(file) : file[i].id = (file[Len(file)].id - Len(file)) + i

\* C20: after every completed log write the log file holds at most
\* MAX_OSC_MESSAGES entries, and what it holds are the most recent entries
\* in the order they were written: of a packet's records, the last ones of
\* the log; of a logging run, the records with the highest numbers.
C20_LogFileCap ==
  /\ Len(file) <= MAX_OSC_MESSAGES
  /\ phase \in {"decoding", "done"} =>
       file = SliceLast(log, MAX_OSC_MESSAGES)
  /\ phase = "logging" =>
       /\ MostRecentInOrder
       /\ file[Len(file)].id >= MAX_OSC_MESSAGES => Len(file) = MAX_OSC_MESSAGES

-----------------------------------------------------------------------------
(* C21-C24: overlapping log writes *)

\* C21: at most one _performAtomicWrite of the log file is in progress at
\* any time.
C21_OneWriteInProgress ==
  \A c, d \in CallIds : InProgress(c) /\ InProgress(d) => c = d

\* The calls that were made.
Made == {c \in CallIds : calls[c].pc # "idle"}

Occurrences(c) == Cardinality({i \in 1..Len(file) : file[i].id = c})

\* C22: when the calls that were made have all completed, without an I/O
\* error and with fewer entries than MAX_OSC_MESSAGES, the file holds the
\* message of every one of them exactly once.
C22_NoLostEntry ==
  (/\ Made # {}
   /\ \A c \in Made : calls[c].pc = "finished" /\ ~calls[c].failed
   /\ Cardinality(Made) < MAX_OSC_MESSAGES)
  => /\ ~torn
     /\ \A c \in Made : Occurrences(c) = 1

\* C23: at every moment the content at the log file's path is a complete
\* JSON array.
C23_FileAlwaysComplete == ~torn

\* C24: once cleanup() has resolved, no _performAtomicWrite that was
\* started before cleanup() was called is still in progress.
C24_CleanupWaitsForWrites ==
  shutdown.state = "resolved" => \A c \in shutdown.started : ~InProgress(c)

-----------------------------------------------------------------------------
(* C25, C26: batch_send_osc *)

\* A message that fails validation: its address is missing or does not
\* start with '/', its type tags hold a character that is no type tag, or
\* the count of its type tags (given, or generated one per value) differs
\* from the count of its values.
FailsValidation(msg) ==
  \/ msg.address.k # "str"
  \/ msg.address.v = <<>>
  \/ msg.address.v[1] # 47
  \/ \E i \in 1..Len(msg.type_tags) :
       msg.type_tags[i] \notin {105, 102, 115, 98, 116, 84, 70, 78, 73}
  \/ msg.type_tags # <<>> /\ Len(msg.type_tags) # Len(msg.values)

Refusable(messages) ==
  \/ messages = <<>>
  \/ Len(messages) > 100
  \/ \E i \in 1..Len(messages) : FailsValidation(messages[i])

\* C25: a batch that is empty, has more than 100 messages or holds a
\* message that fails validation sends no datagram, and the call returns
\* the failure result after logging one 'batch_send_error' entry.
C25_InvalidBatchSendsNothing ==
  (batch.pc # "idle" /\ Refusable(batch.messages))
  => /\ batch.pc = "failed"
     /\ batch.datagrams = <<>>
     /\ Len(file) = 1
     /\ file[1].address = "batch_send_error"

C25_Witness ==
  /\ batch.pc = "failed"
  /\ batch.send_mode = "bundle"
  /\ Len(batch.messages) = 2
  /\ ~FailsValidation(batch.messages[1])
  /\ batch.messages[2].type_tags = <<105, 105>>

\* C26: the summary's successful and failed add up to the number of
\* messages of the batch, in every send mode.
C26_SummaryAddsUp ==
  batch.pc = "returned"
  => /\ batch.summary.successful + batch.summary.failed = Len(batch.messages)
     /\ batch.summary.totalMessages = Len(batch.messages)

C26_Witness ==
  /\ batch.pc = "returned"
  /\ batch.send_mode = "queued"
  /\ Len(batch.messages) = 2
  /\ batch.summary.failed = 2

-----------------------------------------------------------------------------
(* C27, C28: the pattern store *)

\* The well-formed patterns of a list.
WellFormed(patterns) ==
  SelectSeq(patterns, LAMBDA p : /\ p.address # <<>>
                                 /\ p.address[1] = 47
                                 /\ p.description # 0)

\* The file holds a malformed pattern, or a totalPatterns that differs from
\* the number of its valid patterns.
NeedsCleaning(content) ==
  \/ WellFormed(content.patterns) # content.patterns
  \/ content.totalPatterns # Len(WellFormed(content.patterns))

\* C27: a call of loadPatterns on a file with malformed patterns or a
\* wrong totalPatterns writes the cleaned list with the corrected count
\* back; on any other file it writes nothing.
C27_LoadPatternsRepairsFile ==
  [][patternOp'.op = "get"
     => /\ patternOp'.wrote = NeedsCleaning(patternsFile)
        /\ patternsFile' = [patterns |-> WellFormed(patternsFile.patterns),
                            totalPatterns |-> Len(WellFormed(patternsFile.patterns))]]_vars

\* No two patterns of the list share an address.
OnePerAddress(patterns) ==
  \A i, j \in 1..Len(patterns) : patterns[i].address = patterns[j].address => i = j

-----------------------------------------------------------------------------
(* C29: parameter streams *)

\* C29: once stopParameterStream has run for a parameter, no stream that
\* was started for it sends a message (until the parameter is started
\* again).
C29_NoMessageAfterStop ==
  [][Len(streamSent') > Len(streamSent)
     => streamSent'[Len(streamSent')].parameterId \notin stoppedIds]_vars

-----------------------------------------------------------------------------
(* C30: the duplicated decoders *)

\* C30: on every packet that is handled as a message, parseOSCMessage of
\* the dashboard (and of stop.js) returns the address parseOSCAddress
\* returns and the arguments parseOSCArgs returns.
C30_DecodersAgree ==
  (phase = "sent" /\ ~isOSCBundle(wire))
  => /\ parseOSCMessage(wire).address = parseOSCAddress(wire)
     /\ parseOSCMessage(wire).args = parseOSCArgs(wire)

====
